---- MODULE Spec2Model ----
(***************************************************************************)
(* Verification model of the Search_Engine repository.                     *)
(*                                                                         *)
(* Part 1: the staged concurrent pipeline (package pipeline): the driver   *)
(* Pipeline.Process, the source and sink workers, and the four stage       *)
(* runners (FIFO, fixed worker pool, dynamic worker pool, broadcast).      *)
(* Goroutines are processes with a program counter; unbuffered channels    *)
(* are rendezvous between a sender blocked in a send and a receiver        *)
(* blocked in a receive; the buffered error channel and the buffered token *)
(* pool are a sequence and a counter.                                      *)
(***************************************************************************)
EXTENDS Integers, Sequences, FiniteSets, Bags, TLC

(***************************************************************************)
(* Bounds of the model.                                                    *)
(***************************************************************************)
\* Payloads a source hands out in a run without failures.
MaxPayloads == 2
\* Payloads a source hands out in a run in which calls may fail.
FaultyPayloads == 1
\* Failing calls and cancellations the environment injects in such a run.
MaxFaults == 2
\* Calls of Process in progress on one Pipeline value.
MaxCalls == 2
\* numWorkers of FixedWorkerPool and maxWorkers of DynamicWorkerPools.
NumWorkers == 2
\* Supersteps an executor run may start before the model stops following it.
MaxSupersteps == 4
\* ComputeWorkers of the graphs explored (1..MaxComputeWorkers).
MaxComputeWorkers == 2
\* SendMessage and BroadcastToNeighbors calls an arbitrary ComputeFunc makes.
MaxSends == 2
\* Failing ComputeFunc and callback calls and ctx expiries in a graph run.
MaxGraphFaults == 1
\* The base of the digits of a UUID (256 in the program).
UUIDBase == 4
\* The last reading of the clock that time.Now() returns.
MaxTime == 3
\* Upsert and Remove calls of a client of the link store.
MaxStoreCalls == 4
\* Upsert calls that fill the store before the graph updater runs.
MaxSetupCalls == 3
\* Client goroutines of the link store.
MaxStoreClients == 2
\* Partition scans the clients of a store start.
MaxScans == 2
\* FindLink calls the clients of a store make.
MaxFinds == 2
\* Partitions the ID space is split into in a scan.
MaxPartitions == 3
\* Intervals of the service loops that elapse.
MaxIntervals == 3
\* Failing collaborator calls in the passes of the services.
MaxPassFaults == 1
\* Supersteps of the PageRank passes after which the executor goes on.
MaxPassSteps == 1
\* Goroutines that call a Float64Accumulator.
MaxAccWorkers == 2
\* Calls of Aggregate and Set made on a Float64Accumulator.
MaxAccCalls == 3
\* Bits of the fraction of a float64 the model keeps (52 in the program).
FractionBits == 4
\* Goroutines that enqueue messages in an inMemoryQueue.
MaxProducers == 2
\* Enqueue calls made on an inMemoryQueue.
MaxEnqueues == 4
\* DiscardMessages calls made on an inMemoryQueue.
MaxDiscards == 1

(***************************************************************************)
(* Stage constructors.  A stage is described by its kind and its size      *)
(* (workers, tokens or sub-processors).                                    *)
(***************************************************************************)
NewFIFO_TwoWorkers == [kind |-> "fifo", size |-> 2]

NewFIFO == [kind |-> "fifo", size |-> 1]

\* panic(msg) in a constructor: no StageRunner is returned.
Panic(msg) == [kind |-> "panic", size |-> 0, msg |-> msg]

FixedWorkerPool(numWorkers) ==
    IF numWorkers <= 0
    THEN Panic("FixedWorkerPool: numWorkers must be > 0")
    ELSE [kind |-> "fixed", size |-> numWorkers]

DynamicWorkerPools(maxWorkers) ==
    IF maxWorkers <= 0
    THEN Panic("DynamicWorkerPool: maxWorkers must be > 0")
    ELSE [kind |-> "dynamic", size |-> maxWorkers]

\* Broadcast(proc...) with m processors.
Broadcast(m) ==
    IF m = 0
    THEN Panic("Broadcast : at least one processor must be specified")
    ELSE [kind |-> "broadcast", size |-> m]

\* The smallest pool the constructors accept (they panic on size <= 0).
MinWorkers == 1

\* The crawler's last stage: Broadcast(graphUpdater, textIndexer).
CrawlerBroadcastWays == 2

(***************************************************************************)
(* The programs explored: a pipeline (New(stages...)), the number of       *)
(* Process calls made on it, the length bound of each call's source, and   *)
(* how many failures the environment injects at most (processor, source    *)
(* and sink errors, cancellations of the caller's context).                *)
(***************************************************************************)
DynamicPools ==
    { DynamicWorkerPools(MinWorkers), DynamicWorkerPools(NumWorkers) }

\* One call, no failure: the runs the ordering and counting claims are about.
CleanScenarios ==
    { [stages |-> st, calls |-> 1, payloads |-> MaxPayloads, faults |-> 0] :
        st \in { <<NewFIFO, NewFIFO>>,
                 <<NewFIFO, Broadcast(CrawlerBroadcastWays)>>,
                 <<FixedWorkerPool(NumWorkers)>> }
               \cup { <<d>> : d \in DynamicPools } }

\* One call, with errors and cancellation.
FaultyScenarios ==
    { [stages |-> st, calls |-> 1, payloads |-> FaultyPayloads,
       faults |-> MaxFaults] :
        st \in { <<NewFIFO, NewFIFO>>,
                 <<Broadcast(CrawlerBroadcastWays)>>,
                 <<FixedWorkerPool(NumWorkers)>> }
               \cup { <<d>> : d \in DynamicPools } }

\* Concurrent calls on one Pipeline value, each with a one-payload source:
\* the stateless FIFO and the stage that owns state, the dynamic pool.
SharedScenarios ==
    { [stages |-> st, calls |-> MaxCalls, payloads |-> 1, faults |-> 0] :
        st \in { <<NewFIFO>> } \cup { <<d>> : d \in DynamicPools } }

\* Programs that panic while they build their pipeline: a pool of no
\* worker, a broadcast to no processor.
PanicScenarios ==
    { [stages |-> st, calls |-> 1, payloads |-> 1, faults |-> 0] :
        st \in { <<FixedWorkerPool(MinWorkers - 1)>>,
                 <<DynamicWorkerPools(MinWorkers - 1)>>,
                 <<NewFIFO, Broadcast(0)>> } }

Scenarios ==
    CleanScenarios \cup FaultyScenarios \cup SharedScenarios
        \cup PanicScenarios

VARIABLES
    scenario,        \* the program explored (never changes)
    faultsLeft,      \* failures the environment may still inject
    tokenPool,       \* stage index -> tokens in the stage's token channel
    pc,              \* goroutine -> program counter
    hold,            \* goroutine -> payload it holds
    idx,             \* goroutine -> loop index (broadcast fan-out, drain)
    closed,          \* channel -> closed
    emitted,         \* call -> payloads handed out by the source
    wg,              \* call -> sync.WaitGroup counter of Process
    errCh,           \* call -> contents of the buffered error channel
    errClosed,       \* call -> error channel closed
    errs,            \* call -> errors appended to the composite by Process
    callerCancelled, \* call -> the caller's ctx was cancelled
    pCancelled,      \* call -> ctxCancelFn of pCtx was called
    firstErr,        \* history: call -> first error handed to maybeEmitError
    reported,        \* history: call -> errors handed to maybeEmitError
    sent,            \* history: bag of <<channel, payload>> transfers
    handled,         \* history: bag of <<worker, payload>> Processor calls
    dropped,         \* history: bag of <<call, stage, payload>> dropped
    marks,           \* history: bag of <<call, payload, by>> MarkAsProcessed
    consumed         \* history: call -> payloads the sink consumed, in order

\* The state of the pipeline.
pvars == <<scenario, faultsLeft, tokenPool, pc, hold, idx, closed, emitted,
           wg, errCh, errClosed, errs, callerCancelled, pCancelled,
           firstErr, reported, sent, handled, dropped, marks, consumed>>

\* Part 2: the state of a bspgraph.Graph and of the Executor that runs it.
VARIABLES
    gconfig,         \* the graph program explored (never changes)
    gbudget,         \* [sends, faults]: what compute and callbacks may do
    cpc,             \* position of the client goroutine
    built,           \* calls of the client's build plan already made
    gpc,             \* compute worker -> position in stepWorker
    superstep,       \* Graph.superstep
    vertices,        \* Graph.vertices: id -> value, active, queues, edges
    aggregators,     \* Graph.aggregators: the registered names
    vertexChOpen,    \* Graph.vertexCh is not closed
    graphErrCh,      \* contents of Graph.errCh
    activeInStep,    \* Graph.activeInStep
    pendingInStep,   \* Graph.pendingInStep
    unsent,          \* vertices the range loop of step has yet to send
    wvertex,         \* worker -> id of the vertex it received
    wcall,           \* worker -> progress of its ComputeFunc call
    maxSteps,        \* run: maxSteps (negative: no limit)
    runErr,          \* run: err
    ctxExpired,      \* the ctx given to the executor has expired
    glog             \* history of the calls made and of their results

gvars == <<gconfig, gbudget, cpc, built, gpc, superstep, vertices,
           aggregators, vertexChOpen, graphErrCh, activeInStep,
           pendingInStep, unsent, wvertex, wcall, maxSteps, runErr,
           ctxExpired, glog>>

\* Part 3: the state of an in-memory link graph store (InMemoryGraph), of
\* the clients that call it and of the graph-updater stage of the crawler.
VARIABLES
    lconfig,         \* the store scenario explored (never changes)
    links,           \* InMemoryGraph.links: link ID -> URL, RetrievedAt
    linkURLIndex,    \* InMemoryGraph.linkURLIndex: URL -> link (its ID)
    storeEdges,      \* InMemoryGraph.edges: edge ID -> Src, Dst, UpdatedAt
    linkEdgeMap,     \* InMemoryGraph.linkEdgeMap: link ID -> edge IDs
    mu,              \* InMemoryGraph.mu: [readers, writer, wait, ...]
    crashed,         \* the runtime has stopped the program (fatal error)
    now,             \* the clock time.Now() reads
    uuids,           \* the UUIDs uuid.New() has yet to hand out
    lpc,             \* store client -> position
    lreq,            \* store client -> its call waiting in Lock or reading
    iter,            \* store client -> its linkIterator [links, curIndex]
    scan,            \* store client -> its partition scan
    escan,           \* store client -> its Edges call and edgeIterator
    upd,             \* graphUpdater.Process: position and locals
    lcall,           \* the last store call that returned, with its result
    llog             \* history of the store calls

lvars == <<lconfig, links, linkURLIndex, storeEdges, linkEdgeMap, mu,
           crashed, now, uuids, lpc, lreq, iter, scan, escan, upd, lcall,
           llog>>

\* Part 4: the state of the crawler and PageRank services (Service.Run).
VARIABLES
    sconfig,         \* the service scenario explored (never changes)
    spc,             \* service -> position in Run
    sctx,            \* the ctx given to Run has been cancelled
    sinfo,           \* service -> the last answer of the partition detector
    sresult,         \* service -> what Run returned
    sbudget,         \* intervals and failures the environment may produce
    slog,            \* service -> history of its passes
    grp              \* Group.Run: position, caller's ctx, errCh, result

svars == <<sconfig, spc, sctx, sinfo, sresult, sbudget, slog, grp>>

\* Part 5: the state of a Float64Accumulator and of the goroutines that
\* call it.
VARIABLES
    aconfig,         \* the accumulator scenario explored (never changes)
    curSum,          \* Float64Accumulator.curSum: the bits in memory
    prevSum,         \* Float64Accumulator.prevSum: the bits in memory
    apc,             \* goroutine -> position in Aggregate or Set
    acall,           \* goroutine -> the locals of its call
    alog             \* history of the calls

avars == <<aconfig, curSum, prevSum, apc, acall, alog>>

\* Part 6: the state of an inMemoryQueue, of the goroutines that enqueue
\* messages and of the goroutine that iterates and discards them.
VARIABLES
    qconfig,         \* the queue scenario explored (never changes)
    qmsgs,           \* inMemoryQueue.msgs, oldest first
    latchedMsg,      \* inMemoryQueue.latchedMsg
    qpc,             \* position of the consumer of the iterator
    qgot,            \* what the calls of Message have returned, in order
    qlog             \* history of the calls

qvars == <<qconfig, qmsgs, latchedMsg, qpc, qgot, qlog>>

vars == <<pvars, gvars, lvars, svars, avars, qvars>>

\* The variables of the other machines, which the steps of one machine
\* leave alone.
otherP == <<gvars, lvars, svars, avars, qvars>>

otherG == <<pvars, lvars, svars, avars, qvars>>

otherL == <<pvars, gvars, svars, avars, qvars>>

otherS == <<pvars, gvars, lvars, avars, qvars>>

otherA == <<pvars, gvars, lvars, svars, qvars>>

otherQ == <<pvars, gvars, lvars, svars, avars>>

(***************************************************************************)
(* Values.                                                                 *)
(***************************************************************************)
\* A payload instance: the source's id-th payload, or its Clone for
\* broadcast branch copy (copy = 0 is the instance the source created).
Payload(id) == [id |-> id, copy |-> 0]

Clone(payload, i) == [id |-> payload.id, copy |-> i]

NoPayload == [id |-> 0, copy |-> 0]

\* Errors as wrapped by the workers: xerrors.Errorf("pipeline stage %d: %w"),
\* "pipeline source: %w", "pipeline sink: %w".  cause "ctx" is a context
\* error (context.Canceled), cause "fail" any other error.
NoError == [origin |-> "nil", stage |-> 0, cause |-> "nil"]

StageError(stageIndex, cause) ==
    [origin |-> "stage", stage |-> stageIndex, cause |-> cause]

SourceError(cause) == [origin |-> "source", stage |-> 0, cause |-> cause]

SinkError(cause) == [origin |-> "sink", stage |-> 0, cause |-> cause]

(***************************************************************************)
(* Static structure of a run: calls, stages, goroutines, channels.         *)
(***************************************************************************)
Calls == 1..scenario.calls

NumStages == Len(scenario.stages)

\* Go stage indices are 0-based.
StageIdx == 0..(NumStages - 1)

Stage(s) == scenario.stages[s + 1]

StageCh(c, i) == <<c, "st", i, 0>>

SubCh(c, s, i) == <<c, "bc", s, i>>

SourceId(c) == <<c, "source", 0, 0>>

SinkId(c) == <<c, "sink", 0, 0>>

SupervisorId(c) == <<c, "supervisor", 0, 0>>

MainId(c) == <<c, "main", 0, 0>>

\* The goroutine Process starts for stage s (it calls Run, then closes).
StageId(c, s) == <<c, "stage", s, 0>>

\* The body of Run of a fixed pool, dynamic pool or broadcast stage.
RunId(c, s) == <<c, "run", s, 0>>

FifoId(c, s, w) == <<c, "fifo", s, w>>

DynWorkerId(c, s, w) == <<c, "dyn", s, w>>

FifoIdx(s) ==
    IF Stage(s).kind = "dynamic" THEN {} ELSE 0..(Stage(s).size - 1)

DynSlots(s) ==
    IF Stage(s).kind = "dynamic" THEN 1..scenario.payloads ELSE {}

HasRun(s) == Stage(s).kind # "fifo"

ProcIds ==
    UNION { {SourceId(c), SinkId(c), SupervisorId(c), MainId(c)}
            \cup { StageId(c, s) : s \in StageIdx }
            \cup { RunId(c, s) : s \in {t \in StageIdx : HasRun(t)} }
            \cup UNION { { FifoId(c, s, w) : w \in FifoIdx(s) }
                         : s \in StageIdx }
            \cup UNION { { DynWorkerId(c, s, w) : w \in DynSlots(s) }
                         : s \in StageIdx }
          : c \in Calls }

ChanIds ==
    UNION { { StageCh(c, i) : i \in 0..NumStages }
            \cup UNION { IF Stage(s).kind = "broadcast"
                         THEN { SubCh(c, s, i) : i \in FifoIdx(s) }
                         ELSE {} : s \in StageIdx }
          : c \in Calls }

CallOf(p) == p[1]

\* workerParams.inCh of a FIFO: the stage input, or the broadcast's inCh[i].
FifoIn(c, s, w) ==
    IF Stage(s).kind = "broadcast" THEN SubCh(c, s, w) ELSE StageCh(c, s)

\* pCtx.Done() is closed: pCtx is derived from the caller's ctx.
PCtxDone(c) == callerCancelled[c] \/ pCancelled[c]

\* errCh := make(chan error, len(p.stages)+2)
ErrChCap_Unbuffered(numStages) == 0

ErrChCap(numStages) == numStages + 2


(***************************************************************************)
(* Helpers shared by the workers.                                          *)
(***************************************************************************)
AddOne(bag, x) == bag (+) SetToBag({x})

Kind(p) == p[2]

\* The channel a goroutine blocked in a receive reads from.
InCh(p) ==
    CASE Kind(p) = "fifo" -> FifoIn(p[1], p[3], p[4])
      [] Kind(p) = "run" -> StageCh(p[1], p[3])
      [] Kind(p) = "sink" -> StageCh(p[1], NumStages)
      [] OTHER -> <<0, "none", 0, 0>>

\* Where a goroutine continues once its receive returned a payload.
AfterRecv(p) ==
    CASE Kind(p) = "fifo" -> "proc"
      [] Kind(p) = "sink" -> "consume"
      [] Kind(p) = "run" /\ Stage(p[3]).kind = "dynamic" -> "acquire"
      [] OTHER -> "dispatch"

\* for i := len(b.fifos) - 1; ... : the index the fan-out loop starts at.
AfterRecvIdx_OffByOne(p) ==
    IF Kind(p) = "run" /\ Stage(p[3]).kind = "broadcast"
    THEN Stage(p[3]).size - 2
    ELSE 0

AfterRecvIdx(p) ==
    IF Kind(p) = "run" /\ Stage(p[3]).kind = "broadcast"
    THEN Stage(p[3]).size - 1
    ELSE 0

Receivers(ch) == { p \in ProcIds : pc[p] = "recv" /\ InCh(p) = ch }

\* A send on the unbuffered channel ch completes: sender snd continues at
\* sndPc (holding sndHold, loop index sndIdx), receiver rcv got payload.
Deliver(snd, sndPc, sndHold, sndIdx, rcv, payload, ch) ==
    /\ ~closed[ch]
    /\ pc' = [pc EXCEPT ![snd] = sndPc, ![rcv] = AfterRecv(rcv)]
    /\ hold' = [hold EXCEPT ![snd] = sndHold, ![rcv] = payload]
    /\ idx' = [idx EXCEPT ![snd] = sndIdx, ![rcv] = AfterRecvIdx(rcv)]
    /\ sent' = AddOne(sent, <<ch, payload>>)

\* payloadIn.MarkAsProcessed() of a stage whose processor dropped payloadIn.
MarkDropped_Forgotten(c, payload) == marks

MarkDropped(c, payload) == AddOne(marks, <<c, payload, "stage">>)

\* A sink worker that releases the payload it consumed twice.
MarkConsumed_Twice(c, payload) ==
    AddOne(AddOne(marks, <<c, payload, "sink">>), <<c, payload, "sink">>)

\* payload.MarkAsProcessed() of the sink worker after a successful Consume.
MarkConsumed(c, payload) == AddOne(marks, <<c, payload, "sink">>)

\* select { case errCh <- err: default: } on the buffered error channel.
MaybeEmitError(c, err) ==
    /\ errCh' = [errCh EXCEPT ![c] =
                    IF Len(@) < ErrChCap(NumStages) THEN Append(@, err) ELSE @]
    /\ firstErr' = [firstErr EXCEPT ![c] = IF @ = NoError THEN err ELSE @]
    /\ reported' = [reported EXCEPT ![c] = @ \cup {err}]

\* The errors a Processor, Source.Error or Sink.Consume may answer (while
\* the environment has failures left): a context error only once the
\* context it was given is done.
Causes(c) ==
    IF faultsLeft > 0
    THEN {"fail"} \cup (IF PCtxDone(c) THEN {"ctx"} ELSE {})
    ELSE {}

Outcomes(c) == {"pass", "drop"} \cup Causes(c)

\* payloadOut, err := proc.Process(ctx, payloadIn) and the two early exits
\* that follow it: the error exit and the drop (payloadOut == nil).
ProcessorCall(p, c, s, outcome, passPc, dropPc, errPc) ==
    /\ outcome \in Outcomes(c)
    /\ handled' = AddOne(handled, <<p, hold[p]>>)
    /\ CASE outcome = "pass" ->
              /\ pc' = [pc EXCEPT ![p] = passPc]
              /\ UNCHANGED <<hold, marks, dropped, errCh, firstErr, reported>>
         [] outcome = "drop" ->
              /\ pc' = [pc EXCEPT ![p] = dropPc]
              /\ hold' = [hold EXCEPT ![p] = NoPayload]
              /\ marks' = MarkDropped(c, hold[p])
              /\ dropped' = AddOne(dropped, <<c, s, hold[p]>>)
              /\ UNCHANGED <<errCh, firstErr, reported>>
         [] OTHER ->
              /\ pc' = [pc EXCEPT ![p] = errPc]
              /\ hold' = [hold EXCEPT ![p] = NoPayload]
              /\ MaybeEmitError(c, StageError(s, outcome))
              /\ UNCHANGED <<marks, dropped>>
    /\ faultsLeft' = IF outcome \in {"pass", "drop"}
                     THEN faultsLeft ELSE faultsLeft - 1

(***************************************************************************)
(* Initial state: the pipeline has been built by New(stages...); every     *)
(* DynamicWorkerPools stage owns a full token pool; no call is running.    *)
(***************************************************************************)
PipelineInit(scenarios) ==
    /\ scenario \in scenarios
    /\ faultsLeft = scenario.faults
    /\ tokenPool = [s \in StageIdx |->
                       IF Stage(s).kind = "dynamic" THEN Stage(s).size ELSE 0]
    /\ pc = [p \in ProcIds |-> "idle"]
    /\ hold = [p \in ProcIds |-> NoPayload]
    /\ idx = [p \in ProcIds |-> 0]
    /\ closed = [ch \in ChanIds |-> FALSE]
    /\ emitted = [c \in Calls |-> 0]
    /\ wg = [c \in Calls |-> 0]
    /\ errCh = [c \in Calls |-> <<>>]
    /\ errClosed = [c \in Calls |-> FALSE]
    /\ errs = [c \in Calls |-> <<>>]
    /\ callerCancelled = [c \in Calls |-> FALSE]
    /\ pCancelled = [c \in Calls |-> FALSE]
    /\ firstErr = [c \in Calls |-> NoError]
    /\ reported = [c \in Calls |-> {}]
    /\ sent = EmptyBag
    /\ handled = EmptyBag
    /\ dropped = EmptyBag
    /\ marks = EmptyBag
    /\ consumed = [c \in Calls |-> <<>>]

(***************************************************************************)
(* Pipeline.Process: the call, the supervisor and the error collection.    *)
(***************************************************************************)
StartPc(p) ==
    CASE Kind(p) = "source" -> "next"
      [] Kind(p) = "sink" -> "recv"
      [] Kind(p) = "supervisor" -> "wait"
      [] Kind(p) = "main" -> "range"
      [] Kind(p) = "stage" -> "run"
      [] Kind(p) = "run" ->
            IF Stage(p[3]).kind = "fixed" THEN "wait" ELSE "recv"
      [] Kind(p) = "fifo" -> "recv"
      [] OTHER -> "idle"

\* The program has built its pipeline: no constructor of a stage panicked.
Built == \A s \in StageIdx : Stage(s).kind # "panic"

\* Process up to its error loop: pCtx, the channels and every goroutine.
Process(c) ==
    /\ c \in Calls
    /\ Built
    /\ pc[MainId(c)] = "idle"
    /\ IF c = 1 THEN TRUE ELSE pc[MainId(c - 1)] # "idle"
    /\ pc' = [p \in ProcIds |-> IF CallOf(p) = c THEN StartPc(p) ELSE pc[p]]
    /\ wg' = [wg EXCEPT ![c] = NumStages + 2]
    /\ UNCHANGED <<otherP, scenario, faultsLeft, tokenPool, hold, idx, closed,
                   emitted, errCh, errClosed, errs, callerCancelled,
                   pCancelled, firstErr, reported, sent, handled, dropped,
                   marks, consumed>>

Returned(c) == pc[MainId(c)] = "returned"

\* The caller cancels the ctx it passed to Process while the call runs.
CallerCancel(c) ==
    /\ c \in Calls
    /\ faultsLeft > 0
    /\ pc[MainId(c)] = "range"
    /\ ~callerCancelled[c]
    /\ callerCancelled' = [callerCancelled EXCEPT ![c] = TRUE]
    /\ faultsLeft' = faultsLeft - 1
    /\ UNCHANGED <<otherP,
                   scenario, tokenPool, pc, hold, idx, closed, emitted, wg,
                   errCh, errClosed, errs, pCancelled, firstErr, reported,
                   sent, handled, dropped, marks, consumed>>

\* go func() { wg.Wait(); close(errCh); ... }
SupervisorClose(c) ==
    /\ c \in Calls
    /\ pc[SupervisorId(c)] = "wait"
    /\ wg[c] = 0
    /\ errClosed' = [errClosed EXCEPT ![c] = TRUE]
    /\ pc' = [pc EXCEPT ![SupervisorId(c)] = "cancel"]
    /\ UNCHANGED <<otherP, scenario, faultsLeft, tokenPool, hold, idx, closed,
                   emitted, wg, errCh, errs, callerCancelled, pCancelled,
                   firstErr, reported, sent, handled, dropped, marks,
                   consumed>>

\* ... ctxCancelFn() }
SupervisorCancel(c) ==
    /\ c \in Calls
    /\ pc[SupervisorId(c)] = "cancel"
    /\ pCancelled' = [pCancelled EXCEPT ![c] = TRUE]
    /\ pc' = [pc EXCEPT ![SupervisorId(c)] = "done"]
    /\ UNCHANGED <<otherP, scenario, faultsLeft, tokenPool, hold, idx, closed,
                   emitted, wg, errCh, errClosed, errs, callerCancelled,
                   firstErr, reported, sent, handled, dropped, marks,
                   consumed>>

\* for pErr := range errCh { err = multierror.Append(err, pErr); ctxCancelFn() }
MainCollect(c) ==
    /\ c \in Calls
    /\ pc[MainId(c)] = "range"
    /\ errCh[c] # <<>>
    /\ errs' = [errs EXCEPT ![c] = Append(@, Head(errCh[c]))]
    /\ errCh' = [errCh EXCEPT ![c] = Tail(@)]
    /\ pCancelled' = [pCancelled EXCEPT ![c] = TRUE]
    /\ UNCHANGED <<otherP,
                   scenario, faultsLeft, tokenPool, pc, hold, idx, closed,
                   emitted, wg, errClosed, callerCancelled, firstErr,
                   reported, sent, handled, dropped, marks, consumed>>

\* The range loop ends on the closed, drained channel: return err.
MainReturn(c) ==
    /\ c \in Calls
    /\ pc[MainId(c)] = "range"
    /\ errCh[c] = <<>>
    /\ errClosed[c]
    /\ pc' = [pc EXCEPT ![MainId(c)] = "returned"]
    /\ UNCHANGED <<otherP, scenario, faultsLeft, tokenPool, hold, idx, closed,
                   emitted, wg, errCh, errClosed, errs, callerCancelled,
                   pCancelled, firstErr, reported, sent, handled, dropped,
                   marks, consumed>>

(***************************************************************************)
(* sourceWorker and the goroutine that runs it.                            *)
(***************************************************************************)
\* source.Next(ctx) returns true; payload := source.Payload().
SourceNext(c) ==
    /\ c \in Calls
    /\ pc[SourceId(c)] = "next"
    /\ emitted[c] < scenario.payloads
    /\ emitted' = [emitted EXCEPT ![c] = @ + 1]
    /\ hold' = [hold EXCEPT ![SourceId(c)] = Payload(emitted[c] + 1)]
    /\ pc' = [pc EXCEPT ![SourceId(c)] = "send"]
    /\ UNCHANGED <<otherP,
                   scenario, faultsLeft, tokenPool, idx, closed, wg, errCh,
                   errClosed, errs, callerCancelled, pCancelled, firstErr,
                   reported, sent, handled, dropped, marks, consumed>>

\* source.Next(ctx) returns false; source.Error() is cause ("nil": none).
SourceEnd(c, cause) ==
    /\ c \in Calls
    /\ pc[SourceId(c)] = "next"
    /\ cause \in {"nil"} \cup Causes(c)
    /\ IF cause = "nil"
       THEN UNCHANGED <<faultsLeft, errCh, firstErr, reported>>
       ELSE /\ MaybeEmitError(c, SourceError(cause))
            /\ faultsLeft' = faultsLeft - 1
    /\ pc' = [pc EXCEPT ![SourceId(c)] = "close"]
    /\ UNCHANGED <<otherP, scenario, tokenPool, hold, idx, closed, emitted, wg,
                   errClosed, errs, callerCancelled, pCancelled, sent,
                   handled, dropped, marks, consumed>>

\* case outCh <- payload:
SourceSend(c) ==
    /\ c \in Calls
    /\ pc[SourceId(c)] = "send"
    /\ \E r \in Receivers(StageCh(c, 0)) :
          Deliver(SourceId(c), "next", NoPayload, 0, r,
                  hold[SourceId(c)], StageCh(c, 0))
    /\ UNCHANGED <<otherP, scenario, faultsLeft, tokenPool, closed, emitted, wg,
                   errCh, errClosed, errs, callerCancelled, pCancelled,
                   firstErr, reported, handled, dropped, marks, consumed>>

\* case <-ctx.Done(): return
SourceCtxDone(c) ==
    /\ c \in Calls
    /\ pc[SourceId(c)] = "send"
    /\ PCtxDone(c)
    /\ pc' = [pc EXCEPT ![SourceId(c)] = "close"]
    /\ hold' = [hold EXCEPT ![SourceId(c)] = NoPayload]
    /\ UNCHANGED <<otherP,
                   scenario, faultsLeft, tokenPool, idx, closed, emitted, wg,
                   errCh, errClosed, errs, callerCancelled, pCancelled,
                   firstErr, reported, sent, handled, dropped, marks,
                   consumed>>

\* close(stageCh[0]); wg.Done()
SourceClose(c) ==
    /\ c \in Calls
    /\ pc[SourceId(c)] = "close"
    /\ closed' = [closed EXCEPT ![StageCh(c, 0)] = TRUE]
    /\ wg' = [wg EXCEPT ![c] = @ - 1]
    /\ pc' = [pc EXCEPT ![SourceId(c)] = "done"]
    /\ UNCHANGED <<otherP,
                   scenario, faultsLeft, tokenPool, hold, idx, emitted, errCh,
                   errClosed, errs, callerCancelled, pCancelled, firstErr,
                   reported, sent, handled, dropped, marks, consumed>>

(***************************************************************************)
(* sinkWorker and the goroutine that runs it (wg.Done on return).          *)
(***************************************************************************)
\* case payload, ok := <-inCh: if !ok { return }
SinkInputClosed(c) ==
    /\ c \in Calls
    /\ pc[SinkId(c)] = "recv"
    /\ closed[StageCh(c, NumStages)]
    /\ pc' = [pc EXCEPT ![SinkId(c)] = "done"]
    /\ wg' = [wg EXCEPT ![c] = @ - 1]
    /\ UNCHANGED <<otherP, scenario, faultsLeft, tokenPool, hold, idx, closed,
                   emitted, errCh, errClosed, errs, callerCancelled,
                   pCancelled, firstErr, reported, sent, handled, dropped,
                   marks, consumed>>

\* case <-ctx.Done(): return
SinkCtxDone(c) ==
    /\ c \in Calls
    /\ pc[SinkId(c)] = "recv"
    /\ PCtxDone(c)
    /\ pc' = [pc EXCEPT ![SinkId(c)] = "done"]
    /\ wg' = [wg EXCEPT ![c] = @ - 1]
    /\ UNCHANGED <<otherP, scenario, faultsLeft, tokenPool, hold, idx, closed,
                   emitted, errCh, errClosed, errs, callerCancelled,
                   pCancelled, firstErr, reported, sent, handled, dropped,
                   marks, consumed>>

\* sink.Consume(ctx, payload) returns cause ("nil": consumed), then either
\* payload.MarkAsProcessed() or maybeEmitError and return.
SinkConsume(c, cause) ==
    /\ c \in Calls
    /\ pc[SinkId(c)] = "consume"
    /\ cause \in {"nil"} \cup Causes(c)
    /\ hold' = [hold EXCEPT ![SinkId(c)] = NoPayload]
    /\ IF cause = "nil"
       THEN /\ consumed' = [consumed EXCEPT ![c] = Append(@, hold[SinkId(c)])]
            /\ marks' = MarkConsumed(c, hold[SinkId(c)])
            /\ pc' = [pc EXCEPT ![SinkId(c)] = "recv"]
            /\ UNCHANGED <<faultsLeft, errCh, firstErr, reported, wg>>
       ELSE /\ MaybeEmitError(c, SinkError(cause))
            /\ faultsLeft' = faultsLeft - 1
            /\ pc' = [pc EXCEPT ![SinkId(c)] = "done"]
            /\ wg' = [wg EXCEPT ![c] = @ - 1]
            /\ UNCHANGED <<consumed, marks>>
    /\ UNCHANGED <<otherP,
                   scenario, tokenPool, idx, closed, emitted, errClosed, errs,
                   callerCancelled, pCancelled, sent, handled, dropped>>


(***************************************************************************)
(* fifo.Run: one worker, used by the FIFO stage and, through NewFIFO, by   *)
(* the fixed worker pool and the broadcast stage.                          *)
(***************************************************************************)
\* case payloadIn, ok := <-params.Input(): if !ok { return }
FifoInputClosed(c, s, w) ==
    /\ c \in Calls /\ s \in StageIdx /\ w \in FifoIdx(s)
    /\ pc[FifoId(c, s, w)] = "recv"
    /\ closed[FifoIn(c, s, w)]
    /\ pc' = [pc EXCEPT ![FifoId(c, s, w)] = "ret"]
    /\ UNCHANGED <<otherP, scenario, faultsLeft, tokenPool, hold, idx, closed,
                   emitted, wg, errCh, errClosed, errs, callerCancelled,
                   pCancelled, firstErr, reported, sent, handled, dropped,
                   marks, consumed>>

\* case <-ctx.Done(): return   (both selects of the loop)
FifoCtxDone(c, s, w) ==
    /\ c \in Calls /\ s \in StageIdx /\ w \in FifoIdx(s)
    /\ pc[FifoId(c, s, w)] \in {"recv", "send"}
    /\ PCtxDone(c)
    /\ pc' = [pc EXCEPT ![FifoId(c, s, w)] = "ret"]
    /\ hold' = [hold EXCEPT ![FifoId(c, s, w)] = NoPayload]
    /\ UNCHANGED <<otherP,
                   scenario, faultsLeft, tokenPool, idx, closed, emitted, wg,
                   errCh, errClosed, errs, callerCancelled, pCancelled,
                   firstErr, reported, sent, handled, dropped, marks,
                   consumed>>

\* payloadOut, err := f.proc.Process(ctx, payloadIn) and what follows.
FifoProcess(c, s, w, outcome) ==
    /\ c \in Calls /\ s \in StageIdx /\ w \in FifoIdx(s)
    /\ pc[FifoId(c, s, w)] = "proc"
    /\ ProcessorCall(FifoId(c, s, w), c, s, outcome, "send", "recv", "ret")
    /\ UNCHANGED <<otherP,
                   scenario, tokenPool, idx, closed, emitted, wg, errClosed,
                   errs, callerCancelled, pCancelled, sent, consumed>>

\* case params.Output() <- payloadOut:
FifoSend(c, s, w) ==
    /\ c \in Calls /\ s \in StageIdx /\ w \in FifoIdx(s)
    /\ pc[FifoId(c, s, w)] = "send"
    /\ \E r \in Receivers(StageCh(c, s + 1)) :
          Deliver(FifoId(c, s, w), "recv", NoPayload, 0, r,
                  hold[FifoId(c, s, w)], StageCh(c, s + 1))
    /\ UNCHANGED <<otherP, scenario, faultsLeft, tokenPool, closed, emitted, wg,
                   errCh, errClosed, errs, callerCancelled, pCancelled,
                   firstErr, reported, handled, dropped, marks, consumed>>

(***************************************************************************)
(* fixedWorkerPool.Run: the workers are FIFOs on the stage's channels.     *)
(***************************************************************************)
\* wg.Wait() of a pool: every FIFO it started has returned (wg.Done()).
FifosReturned_AnyOne(c, s) ==
    \E w \in FifoIdx(s) : pc[FifoId(c, s, w)] = "ret"

FifosReturned(c, s) ==
    \A w \in FifoIdx(s) : pc[FifoId(c, s, w)] = "ret"

\* wg.Wait() returns; Run returns.
FixedPoolReturn(c, s) ==
    /\ c \in Calls /\ s \in StageIdx
    /\ Stage(s).kind = "fixed"
    /\ pc[RunId(c, s)] = "wait"
    /\ FifosReturned(c, s)
    /\ pc' = [pc EXCEPT ![RunId(c, s)] = "ret"]
    /\ UNCHANGED <<otherP, scenario, faultsLeft, tokenPool, hold, idx, closed,
                   emitted, wg, errCh, errClosed, errs, callerCancelled,
                   pCancelled, firstErr, reported, sent, handled, dropped,
                   marks, consumed>>

(***************************************************************************)
(* dynamicMakerPool.Run and the goroutine it starts per payload.           *)
(***************************************************************************)
\* A receive from, and a send to, the buffered token channel.
TakeToken_Kept(n) == n

TakeToken(n) == n - 1

PutToken(n) == n + 1

\* case payloadIn, ok := <-params.Input(): if !ok { break stop }
DynInputClosed(c, s) ==
    /\ c \in Calls /\ s \in StageIdx
    /\ Stage(s).kind = "dynamic"
    /\ pc[RunId(c, s)] = "recv"
    /\ closed[StageCh(c, s)]
    /\ pc' = [pc EXCEPT ![RunId(c, s)] = "ret"]
    /\ UNCHANGED <<otherP, scenario, faultsLeft, tokenPool, hold, idx, closed,
                   emitted, wg, errCh, errClosed, errs, callerCancelled,
                   pCancelled, firstErr, reported, sent, handled, dropped,
                   marks, consumed>>

\* case <-ctx.Done(): break stop   (input select and token select)
DynCtxDone(c, s) ==
    /\ c \in Calls /\ s \in StageIdx
    /\ Stage(s).kind = "dynamic"
    /\ pc[RunId(c, s)] \in {"recv", "acquire"}
    /\ PCtxDone(c)
    /\ pc' = [pc EXCEPT ![RunId(c, s)] = "ret"]
    /\ hold' = [hold EXCEPT ![RunId(c, s)] = NoPayload]
    /\ UNCHANGED <<otherP,
                   scenario, faultsLeft, tokenPool, idx, closed, emitted, wg,
                   errCh, errClosed, errs, callerCancelled, pCancelled,
                   firstErr, reported, sent, handled, dropped, marks,
                   consumed>>

FreeSlot(c, s) ==
    CHOOSE w \in DynSlots(s) :
        /\ pc[DynWorkerId(c, s, w)] = "idle"
        /\ \A v \in DynSlots(s) :
              v < w => pc[DynWorkerId(c, s, v)] # "idle"

\* case token = <-d.tokenPool: then go func(payloadIn, token) {...}; the
\* loop goes on at the drain of the token pool.
DynAcquire(c, s) ==
    /\ c \in Calls /\ s \in StageIdx
    /\ Stage(s).kind = "dynamic"
    /\ pc[RunId(c, s)] = "acquire"
    /\ tokenPool[s] > 0
    /\ \E w \in DynSlots(s) : pc[DynWorkerId(c, s, w)] = "idle"
    /\ tokenPool' = [tokenPool EXCEPT ![s] = TakeToken(@)]
    /\ pc' = [pc EXCEPT ![RunId(c, s)] = "drain",
                        ![DynWorkerId(c, s, FreeSlot(c, s))] = "proc"]
    /\ hold' = [hold EXCEPT ![RunId(c, s)] = NoPayload,
                            ![DynWorkerId(c, s, FreeSlot(c, s))] =
                                hold[RunId(c, s)]]
    /\ idx' = [idx EXCEPT ![RunId(c, s)] = 0]
    /\ UNCHANGED <<otherP, scenario, faultsLeft, closed, emitted, wg, errCh,
                   errClosed, errs, callerCancelled, pCancelled, firstErr,
                   reported, sent, handled, dropped, marks, consumed>>

\* for i := 0; i < cap(d.tokenPool); i++ { <-d.tokenPool }, inside the
\* receive loop: one token is taken per step, then the loop goes round.
DynDrain(c, s) ==
    /\ c \in Calls /\ s \in StageIdx
    /\ Stage(s).kind = "dynamic"
    /\ pc[RunId(c, s)] = "drain"
    /\ tokenPool[s] > 0
    /\ tokenPool' = [tokenPool EXCEPT ![s] = TakeToken(@)]
    /\ idx' = [idx EXCEPT ![RunId(c, s)] =
                  IF @ + 1 < Stage(s).size THEN @ + 1 ELSE 0]
    /\ pc' = [pc EXCEPT ![RunId(c, s)] =
                  IF idx[RunId(c, s)] + 1 < Stage(s).size
                  THEN "drain" ELSE "recv"]
    /\ UNCHANGED <<otherP,
                   scenario, faultsLeft, hold, closed, emitted, wg, errCh,
                   errClosed, errs, callerCancelled, pCancelled, firstErr,
                   reported, sent, handled, dropped, marks, consumed>>

\* payloadOut, err := d.proc.Process(ctx, payloadIn) and what follows; on
\* the error and on the drop the goroutine returns (to its deferred send).
DynWorkerProcess(c, s, w, outcome) ==
    /\ c \in Calls /\ s \in StageIdx /\ w \in DynSlots(s)
    /\ pc[DynWorkerId(c, s, w)] = "proc"
    /\ ProcessorCall(DynWorkerId(c, s, w), c, s, outcome,
                     "send", "release", "release")
    /\ UNCHANGED <<otherP,
                   scenario, tokenPool, idx, closed, emitted, wg, errClosed,
                   errs, callerCancelled, pCancelled, sent, consumed>>

\* case params.Output() <- payloadOut:
DynWorkerSend(c, s, w) ==
    /\ c \in Calls /\ s \in StageIdx /\ w \in DynSlots(s)
    /\ pc[DynWorkerId(c, s, w)] = "send"
    /\ \E r \in Receivers(StageCh(c, s + 1)) :
          Deliver(DynWorkerId(c, s, w), "release", NoPayload, 0, r,
                  hold[DynWorkerId(c, s, w)], StageCh(c, s + 1))
    /\ UNCHANGED <<otherP, scenario, faultsLeft, tokenPool, closed, emitted, wg,
                   errCh, errClosed, errs, callerCancelled, pCancelled,
                   firstErr, reported, handled, dropped, marks, consumed>>

\* case <-ctx.Done():
DynWorkerCtxDone(c, s, w) ==
    /\ c \in Calls /\ s \in StageIdx /\ w \in DynSlots(s)
    /\ pc[DynWorkerId(c, s, w)] = "send"
    /\ PCtxDone(c)
    /\ pc' = [pc EXCEPT ![DynWorkerId(c, s, w)] = "release"]
    /\ hold' = [hold EXCEPT ![DynWorkerId(c, s, w)] = NoPayload]
    /\ UNCHANGED <<otherP,
                   scenario, faultsLeft, tokenPool, idx, closed, emitted, wg,
                   errCh, errClosed, errs, callerCancelled, pCancelled,
                   firstErr, reported, sent, handled, dropped, marks,
                   consumed>>

\* defer func() { d.tokenPool <- token }()
DynWorkerRelease(c, s, w) ==
    /\ c \in Calls /\ s \in StageIdx /\ w \in DynSlots(s)
    /\ pc[DynWorkerId(c, s, w)] = "release"
    /\ tokenPool[s] < Stage(s).size
    /\ tokenPool' = [tokenPool EXCEPT ![s] = PutToken(@)]
    /\ pc' = [pc EXCEPT ![DynWorkerId(c, s, w)] = "idle"]
    /\ UNCHANGED <<otherP, scenario, faultsLeft, hold, idx, closed, emitted, wg,
                   errCh, errClosed, errs, callerCancelled, pCancelled,
                   firstErr, reported, sent, handled, dropped, marks,
                   consumed>>

(***************************************************************************)
(* broadcast.Run: the fan-out loop; its FIFOs read the channels inCh[i].   *)
(***************************************************************************)
\* case payload, ok := <-params.Input(): if !ok { break done }
BroadcastInputClosed(c, s) ==
    /\ c \in Calls /\ s \in StageIdx
    /\ Stage(s).kind = "broadcast"
    /\ pc[RunId(c, s)] = "recv"
    /\ closed[StageCh(c, s)]
    /\ pc' = [pc EXCEPT ![RunId(c, s)] = "close"]
    /\ UNCHANGED <<otherP, scenario, faultsLeft, tokenPool, hold, idx, closed,
                   emitted, wg, errCh, errClosed, errs, callerCancelled,
                   pCancelled, firstErr, reported, sent, handled, dropped,
                   marks, consumed>>

\* case <-ctx.Done(): break done   (input select and fan-out select)
BroadcastCtxDone(c, s) ==
    /\ c \in Calls /\ s \in StageIdx
    /\ Stage(s).kind = "broadcast"
    /\ pc[RunId(c, s)] \in {"recv", "dispatch"}
    /\ PCtxDone(c)
    /\ pc' = [pc EXCEPT ![RunId(c, s)] = "close"]
    /\ hold' = [hold EXCEPT ![RunId(c, s)] = NoPayload]
    /\ idx' = [idx EXCEPT ![RunId(c, s)] = 0]
    /\ UNCHANGED <<otherP, scenario, faultsLeft, tokenPool, closed, emitted, wg,
                   errCh, errClosed, errs, callerCancelled, pCancelled,
                   firstErr, reported, sent, handled, dropped, marks,
                   consumed>>

\* fifoPayload = payload, or payload.Clone() if i != 0
FifoPayload(payload, i) == IF i # 0 THEN Clone(payload, i) ELSE payload

\* case inCh[i] <- fifoPayload:   for i from len(b.fifos)-1 down to 0
BroadcastDispatch(c, s) ==
    /\ c \in Calls /\ s \in StageIdx
    /\ Stage(s).kind = "broadcast"
    /\ pc[RunId(c, s)] = "dispatch"
    /\ LET i == idx[RunId(c, s)]
           payload == hold[RunId(c, s)]
       IN /\ pc[FifoId(c, s, i)] = "recv"
          /\ Deliver(RunId(c, s),
                     IF i = 0 THEN "recv" ELSE "dispatch",
                     IF i = 0 THEN NoPayload ELSE payload,
                     IF i = 0 THEN 0 ELSE i - 1,
                     FifoId(c, s, i), FifoPayload(payload, i), SubCh(c, s, i))
    /\ UNCHANGED <<otherP, scenario, faultsLeft, tokenPool, closed, emitted, wg,
                   errCh, errClosed, errs, callerCancelled, pCancelled,
                   firstErr, reported, handled, dropped, marks, consumed>>

\* for _, ch := range inCh { close(ch) }
BroadcastCloseInputs(c, s) ==
    /\ c \in Calls /\ s \in StageIdx
    /\ Stage(s).kind = "broadcast"
    /\ pc[RunId(c, s)] = "close"
    /\ closed' = [ch \in ChanIds |->
                     IF ch \in { SubCh(c, s, i) : i \in FifoIdx(s) }
                     THEN TRUE ELSE closed[ch]]
    /\ pc' = [pc EXCEPT ![RunId(c, s)] = "wait"]
    /\ UNCHANGED <<otherP,
                   scenario, faultsLeft, tokenPool, hold, idx, emitted, wg,
                   errCh, errClosed, errs, callerCancelled, pCancelled,
                   firstErr, reported, sent, handled, dropped, marks,
                   consumed>>

\* wg.Wait() returns once every FIFO returned; Run returns.
BroadcastReturn(c, s) ==
    /\ c \in Calls /\ s \in StageIdx
    /\ Stage(s).kind = "broadcast"
    /\ pc[RunId(c, s)] = "wait"
    /\ FifosReturned(c, s)
    /\ pc' = [pc EXCEPT ![RunId(c, s)] = "ret"]
    /\ UNCHANGED <<otherP, scenario, faultsLeft, tokenPool, hold, idx, closed,
                   emitted, wg, errCh, errClosed, errs, callerCancelled,
                   pCancelled, firstErr, reported, sent, handled, dropped,
                   marks, consumed>>

(***************************************************************************)
(* The goroutine Process starts per stage, after Run returned.             *)
(***************************************************************************)
\* The close placed before the call of Run rather than after it.
RunReturned_NotAwaited(c, s) == TRUE

RunReturned(c, s) ==
    IF HasRun(s) THEN pc[RunId(c, s)] = "ret"
                 ELSE pc[FifoId(c, s, 0)] = "ret"

\* close(stageCh[stageIndex+1]); wg.Done()
StageClose(c, s) ==
    /\ c \in Calls /\ s \in StageIdx
    /\ pc[StageId(c, s)] = "run"
    /\ RunReturned(c, s)
    /\ closed' = [closed EXCEPT ![StageCh(c, s + 1)] = TRUE]
    /\ wg' = [wg EXCEPT ![c] = @ - 1]
    /\ pc' = [pc EXCEPT ![StageId(c, s)] = "done"]
    /\ UNCHANGED <<otherP,
                   scenario, faultsLeft, tokenPool, hold, idx, emitted, errCh,
                   errClosed, errs, callerCancelled, pCancelled, firstErr,
                   reported, sent, handled, dropped, marks, consumed>>

(***************************************************************************)
(* Specifications.                                                         *)
(***************************************************************************)
AllCauses == {"nil", "fail", "ctx"}

AllOutcomes == {"pass", "drop", "fail", "ctx"}

\* Every call, stage index and worker index of the programs explored.
CallIds == 1..MaxCalls

StageIds == 0..1

WorkerIds == 0..(NumWorkers + MaxPayloads)

\* Steps of the environment: a caller calls Process, or cancels its ctx.
EnvNext ==
    \/ \E c \in CallIds : Process(c)
    \/ \E c \in CallIds : CallerCancel(c)

\* Steps of the goroutines of the calls in progress.
SystemNext ==
    \/ \E c \in CallIds : SupervisorClose(c)
    \/ \E c \in CallIds : SupervisorCancel(c)
    \/ \E c \in CallIds : MainCollect(c)
    \/ \E c \in CallIds : MainReturn(c)
    \/ \E c \in CallIds : SourceNext(c)
    \/ \E c \in CallIds, cause \in AllCauses : SourceEnd(c, cause)
    \/ \E c \in CallIds : SourceSend(c)
    \/ \E c \in CallIds : SourceCtxDone(c)
    \/ \E c \in CallIds : SourceClose(c)
    \/ \E c \in CallIds : SinkInputClosed(c)
    \/ \E c \in CallIds : SinkCtxDone(c)
    \/ \E c \in CallIds, cause \in AllCauses : SinkConsume(c, cause)
    \/ \E c \in CallIds, s \in StageIds : StageClose(c, s)
    \/ \E c \in CallIds, s \in StageIds, w \in WorkerIds :
          FifoInputClosed(c, s, w)
    \/ \E c \in CallIds, s \in StageIds, w \in WorkerIds :
          FifoCtxDone(c, s, w)
    \/ \E c \in CallIds, s \in StageIds, w \in WorkerIds,
          outcome \in AllOutcomes : FifoProcess(c, s, w, outcome)
    \/ \E c \in CallIds, s \in StageIds, w \in WorkerIds : FifoSend(c, s, w)
    \/ \E c \in CallIds, s \in StageIds : FixedPoolReturn(c, s)
    \/ \E c \in CallIds, s \in StageIds : DynInputClosed(c, s)
    \/ \E c \in CallIds, s \in StageIds : DynCtxDone(c, s)
    \/ \E c \in CallIds, s \in StageIds : DynAcquire(c, s)
    \/ \E c \in CallIds, s \in StageIds : DynDrain(c, s)
    \/ \E c \in CallIds, s \in StageIds, w \in WorkerIds,
          outcome \in AllOutcomes : DynWorkerProcess(c, s, w, outcome)
    \/ \E c \in CallIds, s \in StageIds, w \in WorkerIds :
          DynWorkerSend(c, s, w)
    \/ \E c \in CallIds, s \in StageIds, w \in WorkerIds :
          DynWorkerCtxDone(c, s, w)
    \/ \E c \in CallIds, s \in StageIds, w \in WorkerIds :
          DynWorkerRelease(c, s, w)
    \/ \E c \in CallIds, s \in StageIds : BroadcastInputClosed(c, s)
    \/ \E c \in CallIds, s \in StageIds : BroadcastCtxDone(c, s)
    \/ \E c \in CallIds, s \in StageIds : BroadcastDispatch(c, s)
    \/ \E c \in CallIds, s \in StageIds : BroadcastCloseInputs(c, s)
    \/ \E c \in CallIds, s \in StageIds : BroadcastReturn(c, s)

Next == EnvNext \/ SystemNext

(***************************************************************************)
(* Part 2: the BSP graph engine (package bspgraph): a Graph with its       *)
(* compute workers (stepWorker), the calls a client makes on it            *)
(* (AddVertex, AddEdge, RegisterAggregator, Reset, Close), the calls a     *)
(* ComputeFunc makes (SendMessage, BroadcastToNeighbors, Freeze) and the   *)
(* Executor loop (run).  vertexCh and stepCompleteCh are unbuffered        *)
(* channels: a transfer is a rendezvous of a parked sender and a parked    *)
(* receiver.  errCh is only ever used through select statements with a     *)
(* default branch, on both ends.                                           *)
(***************************************************************************)
\* Vertex ids a client registers, and an id that is never registered (a
\* vertex of another partition).
VertexIds == {"A", "B", "C"}

RemoteId == "R"

\* Errors: the sentinel or cause an error wraps, and the vertex named by
\* the message stepWorker wraps it in.  GNil is the nil error.
NoVertex == "none"

Error(name) == [name |-> name, vertex |-> NoVertex]

GNil == Error("nil")

ErrUnknownEdgeSource == Error("ErrUnknownEdgeSource")

ErrDestinationIsLocal == Error("ErrDestinationIsLocal")

ErrInvalidMessageDestination == Error("ErrInvalidMessageDestination")

\* An error returned by a Relayer, by a ComputeFunc, by a callback; the
\* error of an expired context.
ErrRelay == Error("ErrRelay")

ErrCompute == Error("ErrCompute")

ErrCallback == Error("ErrCallback")

ErrCtx == Error("ErrCtx")

\* xerrors.Errorf("running compute function for vertex %q failed: %w").
ComputeError(id, err) == [name |-> err.name, vertex |-> id]

\* A message: who sent it, in which superstep, and the value it carries.
Message(src, step, val) == [src |-> src, step |-> step, val |-> val]

\* The value the sample ComputeFunc broadcasts.
SampleValue == 7

\* make(chan error): the capacity of Graph.errCh.
ErrChCapacity == 0

(***************************************************************************)
(* Graph programs: the calls the client makes to build the graph, the      *)
(* ComputeFunc, the callbacks and the run it asks for.                     *)
(***************************************************************************)
AddVertexCall(id, value) ==
    [op |-> "AddVertex", id |-> id, dst |-> id, value |-> value, i |-> 0]

AddEdgeCall(src, dst) ==
    [op |-> "AddEdge", id |-> src, dst |-> dst, value |-> 0, i |-> 0]

RegisterAggregatorCall(name) ==
    [op |-> "RegisterAggregator", id |-> name, dst |-> name, value |-> 0,
     i |-> 0]

\* g.Vertices()[id].Edges()[i-1].SetValue(value).
SetValueCall(id, i, value) ==
    [op |-> "SetValue", id |-> id, dst |-> id, value |-> value, i |-> i]

\* A -> B, A -> C.
SampleBuild ==
    <<AddVertexCall("A", 0), AddVertexCall("B", 0), AddVertexCall("C", 0),
      AddEdgeCall("A", "B"), AddEdgeCall("A", "C")>>

\* A -> R, A -> B, B -> A, B -> R with R a vertex of another partition; an
\* edge from the unregistered C; A added twice; one aggregator; the value
\* of the edge B -> A is set.
MixedBuild ==
    <<AddVertexCall("A", 0), AddEdgeCall("C", "A"), AddVertexCall("B", 0),
      AddEdgeCall("A", RemoteId), AddEdgeCall("A", "B"),
      AddEdgeCall("B", "A"), AddEdgeCall("B", RemoteId),
      AddVertexCall("A", 1), RegisterAggregatorCall("sum"),
      SetValueCall("B", 1, SampleValue)>>

EmptyBuild == <<>>

\* ComputeFunc "sample": on superstep 0 vertex A broadcasts SampleValue to
\* its neighbours and freezes; on a later superstep a vertex that received
\* messages records their maximum and freezes.  ComputeFunc "any": an
\* arbitrary function, one of AnyOps per call.
\* PostStepKeepRunning "default": the callback patchEmptyCallbacks installs;
\* "whileActive": returns activeInStep > 0.
\* steps: the argument of run (-1: RunToCompletion).
\* faulty: what fails in the runs explored ("compute": calls of ComputeFunc,
\* "callback": calls of the executor callbacks, "ctx": the context expires),
\* at most `faults` times.
GraphConfig(build, compute, keep, steps, workers, relayer, sends, kinds, n) ==
    [build |-> build, compute |-> compute, keep |-> keep, steps |-> steps,
     workers |-> workers, relayer |-> relayer, sends |-> sends,
     faulty |-> kinds, faults |-> n]

NoGraphConfig ==
    GraphConfig(EmptyBuild, "none", "default", 0, 0, "nil", 0, {}, 0)

WorkerCounts == 1..MaxComputeWorkers

Keeps == {"default", "whileActive"}

\* The sample program, run to completion.
SampleConfigs ==
    { GraphConfig(SampleBuild, "sample", keep, -1, workers, "nil", 0, {}, 0) :
        keep \in Keeps, workers \in WorkerCounts }

\* Runs on a graph without vertices.
EmptyConfigs ==
    { GraphConfig(EmptyBuild, "any", keep, 2, 1, "nil", 0, {}, 0) :
        keep \in Keeps }

\* An arbitrary ComputeFunc that sends messages and may fail, one worker,
\* run to completion.
MessagingConfigs ==
    { GraphConfig(MixedBuild, "any", "default", -1, 1, "nil", MaxSends,
                  {"compute"}, faults) : faults \in {0, MaxGraphFaults} }

\* The same on any number of workers, for two supersteps.
ConcurrentConfigs ==
    { GraphConfig(MixedBuild, "any", keep, 2, workers, "nil", 1,
                  {"compute"}, MaxGraphFaults) :
        keep \in Keeps, workers \in WorkerCounts }

\* One superstep of a graph with a relayer.
RelayerConfigs ==
    { GraphConfig(MixedBuild, "any", "default", 1, 1, relayer, MaxSends,
                  {}, 0) : relayer \in {"ok", "fail", "local"} }

\* RunSteps(n) with callbacks that fail and a context that expires.
LimitConfigs ==
    { GraphConfig(MixedBuild, "any", keep, steps, 1, "nil", 0,
                  {"callback", "ctx"}, MaxGraphFaults) :
        keep \in Keeps, steps \in 0..2 }

GraphConfigs ==
    SampleConfigs \cup EmptyConfigs \cup MessagingConfigs
    \cup ConcurrentConfigs \cup RelayerConfigs \cup LimitConfigs

GraphWorkers == 1..gconfig.workers

(***************************************************************************)
(* Vertices and message queues.                                            *)
(***************************************************************************)
\* message.inMemoryQueue: msgs, oldest first.
NewInMemoryQueue == <<>>

Enqueue(q, msg) == Append(q, msg)

PendingMessage(q) == Len(q) # 0

DiscardMessages(q) == <<>>

\* The messages in the order in which Next hands them out: from the tail.
RECURSIVE Messages(_)
Messages(q) ==
    IF Len(q) = 0 THEN <<>>
    ELSE <<q[Len(q)]>> \o Messages(SubSeq(q, 1, Len(q) - 1))

\* Go index i of msgQueue is index i + 1 of the model's pair.
QueueOf(v, i) == v.msgQueue[i + 1]

NewVertex ==
    [value |-> 0, active |-> TRUE,
     msgQueue |-> <<NewInMemoryQueue, NewInMemoryQueue>>, edges |-> <<>>]

NoVertices == [id \in {} |-> NewVertex]

\* The vertex map after AddVertex(id, initValue).
AddVertexTo(vs, id, initValue) ==
    LET present == [i \in DOMAIN vs \cup {id} |->
                       IF i \in DOMAIN vs THEN vs[i] ELSE NewVertex]
    IN  [present EXCEPT ![id].value = initValue]

\* The result of AddEdge(srcID, dstID, _) and the vertex map after it.
AddEdgeErr(vs, srcID) ==
    IF srcID \notin DOMAIN vs THEN ErrUnknownEdgeSource ELSE GNil

AddEdgeTo_LocalOnly(vs, srcID, dstID, value) ==
    IF srcID \notin DOMAIN vs \/ dstID \notin DOMAIN vs THEN vs
    ELSE [vs EXCEPT ![srcID].edges =
              Append(@, [dstID |-> dstID, value |-> value])]

AddEdgeTo(vs, srcID, dstID, value) ==
    IF srcID \notin DOMAIN vs THEN vs
    ELSE [vs EXCEPT ![srcID].edges =
              Append(@, [dstID |-> dstID, value |-> value])]

\* Edge.SetValue on the i-th edge of the vertex id: e.value = val.
SetValueOf(vs, id, i, val) == [vs EXCEPT ![id].edges[i].value = val]

\* Vertex.Freeze.
Freeze(vs, id) == [vs EXCEPT ![id].active = FALSE]

\* The relayer the client configured the graph with ("nil": none).
ConfiguredRelayer == gconfig.relayer

\* Graph.relayer: NewGraph builds the Graph without setting the field, and
\* nothing else assigns it.
Relayer == "nil"

\* Relayer.Relay(dstID, msg) of the relayers explored.
RelayOf(relayer, dstID) ==
    CASE relayer = "ok" -> GNil
      [] relayer = "fail" -> ErrRelay
      [] relayer = "local" -> ErrDestinationIsLocal
      [] OTHER -> GNil

Relay(dstID) == RelayOf(Relayer, dstID)

\* SendMessage(dstID, msg): the queue written, the error returned, whether
\* the relayer is called, and the vertex map afterwards.
SendQueueIndex == (superstep + 1) % 2

SendMessageErr(vs, dstID) ==
    IF dstID \in DOMAIN vs THEN GNil
    ELSE IF Relayer # "nil" /\ Relay(dstID) # ErrDestinationIsLocal
         THEN Relay(dstID)
         ELSE ErrInvalidMessageDestination

SendMessageRelays(vs, dstID) == dstID \notin DOMAIN vs /\ Relayer # "nil"

SendMessageTo(vs, dstID, msg) ==
    IF dstID \in DOMAIN vs
    THEN [vs EXCEPT ![dstID].msgQueue[SendQueueIndex + 1] = Enqueue(@, msg)]
    ELSE vs

\* tryEmitError: a send that does not wait.  No goroutine ever waits in a
\* receive on errCh (step receives in a select with a default branch), so
\* the send succeeds only if the channel's buffer has room.
TryEmitError(ch, err) ==
    IF Len(ch) < ErrChCapacity THEN Append(ch, err) ELSE ch

(***************************************************************************)
(* Initial state: NewGraph has started the compute workers, which wait for *)
(* a vertex; the graph is empty; no executor exists yet.                   *)
(***************************************************************************)
NoCall == [op |-> "none", idx |-> 0, dst |-> NoVertex, err |-> GNil]

NoCounts == [id \in VertexIds |-> 0]

NewLog ==
    [result |-> GNil,     \* error returned by the client's last call
     steps |-> 0,         \* calls of step made by the run
     eligible |-> {},     \* vertices active or with messages at its start
     frozen |-> {},       \* vertices inactive at its start
     failed |-> {},       \* vertices whose ComputeFunc failed in this step
     failures |-> 0,      \* supersteps in which a ComputeFunc call failed
     computed |-> NoCounts, \* ComputeFunc calls per vertex in this step
     handled |-> NoCounts,  \* decrements per vertex in this step
     signals |-> 0,       \* completion signals received in this step
     sent |-> {},         \* <<dst, msg>> enqueued by SendMessage
     relayed |-> {},      \* <<dst, msg>> handed to the relayer
     closedQueues |-> {}] \* <<id, i>>: Close was called on queue i of id

GraphInit(configs) ==
    /\ gconfig \in configs
    /\ gbudget = [sends |-> gconfig.sends, faults |-> gconfig.faults]
    /\ cpc = "build"
    /\ built = 0
    /\ gpc = [w \in GraphWorkers |-> "recv"]
    /\ superstep = 0
    /\ vertices = NoVertices
    /\ aggregators = {}
    /\ vertexChOpen = TRUE
    /\ graphErrCh = <<>>
    /\ activeInStep = 0
    /\ pendingInStep = 0
    /\ unsent = {}
    /\ wvertex = [w \in GraphWorkers |-> NoVertex]
    /\ wcall = [w \in GraphWorkers |-> NoCall]
    /\ maxSteps = 0
    /\ runErr = GNil
    /\ ctxExpired = FALSE
    /\ glog = NewLog

(***************************************************************************)
(* The client builds the graph: AddVertex, AddEdge, RegisterAggregator.    *)
(***************************************************************************)
Building(op) ==
    /\ cpc = "build"
    /\ built < Len(gconfig.build)
    /\ gconfig.build[built + 1].op = op

BuildCall == gconfig.build[built + 1]

AddVertex ==
    /\ Building("AddVertex")
    /\ vertices' = AddVertexTo(vertices, BuildCall.id, BuildCall.value)
    /\ built' = built + 1
    /\ glog' = [glog EXCEPT !.result = GNil]
    /\ UNCHANGED <<otherG, gconfig, gbudget, cpc, gpc, superstep, aggregators,
                   vertexChOpen, graphErrCh, activeInStep, pendingInStep,
                   unsent, wvertex, wcall, maxSteps, runErr, ctxExpired>>

AddEdge ==
    /\ Building("AddEdge")
    /\ vertices' = AddEdgeTo(vertices, BuildCall.id, BuildCall.dst,
                             BuildCall.value)
    /\ built' = built + 1
    /\ glog' = [glog EXCEPT !.result = AddEdgeErr(vertices, BuildCall.id)]
    /\ UNCHANGED <<otherG, gconfig, gbudget, cpc, gpc, superstep, aggregators,
                   vertexChOpen, graphErrCh, activeInStep, pendingInStep,
                   unsent, wvertex, wcall, maxSteps, runErr, ctxExpired>>

\* The client sets the value of an edge it got from Vertex.Edges().
SetValue ==
    /\ Building("SetValue")
    /\ BuildCall.id \in DOMAIN vertices
    /\ BuildCall.i \in DOMAIN vertices[BuildCall.id].edges
    /\ vertices' = SetValueOf(vertices, BuildCall.id, BuildCall.i,
                              BuildCall.value)
    /\ built' = built + 1
    /\ UNCHANGED <<otherG, gconfig, gbudget, cpc, gpc, superstep, aggregators,
                   vertexChOpen, graphErrCh, activeInStep, pendingInStep,
                   unsent, wvertex, wcall, maxSteps, runErr, ctxExpired, glog>>

RegisterAggregator ==
    /\ Building("RegisterAggregator")
    /\ aggregators' = aggregators \cup {BuildCall.id}
    /\ built' = built + 1
    /\ glog' = [glog EXCEPT !.result = GNil]
    /\ UNCHANGED <<otherG, gconfig, gbudget, cpc, gpc, superstep, vertices,
                   vertexChOpen, graphErrCh, activeInStep, pendingInStep,
                   unsent, wvertex, wcall, maxSteps, runErr, ctxExpired>>

(***************************************************************************)
(* The executor: NewExecutor, RunToCompletion / RunSteps, and the loop of  *)
(* run, one action per call it makes.                                      *)
(***************************************************************************)
NewExecutor ==
    /\ cpc = "build"
    /\ built = Len(gconfig.build)
    /\ gconfig.compute # "none"
    /\ superstep' = 0
    /\ cpc' = "ready"
    /\ UNCHANGED <<otherG, gconfig, gbudget, built, gpc, vertices,
                   aggregators, vertexChOpen, graphErrCh, activeInStep,
                   pendingInStep, unsent, wvertex, wcall, maxSteps, runErr,
                   ctxExpired, glog>>

\* The condition of the loop of run: maxSteps != 0.
LoopGoesOn_Always(steps) == TRUE

LoopGoesOn(steps) == steps # 0

\* run(ctx, maxSteps) up to the first test of the loop condition.
Run ==
    /\ cpc = "ready"
    /\ maxSteps' = gconfig.steps
    /\ runErr' = GNil
    /\ cpc' = IF LoopGoesOn(gconfig.steps) THEN "ctx" ELSE "returned"
    /\ glog' = [glog EXCEPT !.result = GNil]
    /\ UNCHANGED <<otherG, gconfig, gbudget, built, gpc, superstep, vertices,
                   aggregators, vertexChOpen, graphErrCh, activeInStep,
                   pendingInStep, unsent, wvertex, wcall, ctxExpired>>

\* The positions of the client inside run.
RunPositions == {"ctx", "pre", "step", "range", "wait", "drain", "post",
                 "keep"}

\* The caller's context expires.
CtxExpire ==
    /\ cpc \in RunPositions
    /\ ~ctxExpired
    /\ "ctx" \in gconfig.faulty
    /\ gbudget.faults > 0
    /\ ctxExpired' = TRUE
    /\ gbudget' = [gbudget EXCEPT !.faults = @ - 1]
    /\ UNCHANGED <<otherG, gconfig, cpc, built, gpc, superstep, vertices,
                   aggregators, vertexChOpen, graphErrCh, activeInStep,
                   pendingInStep, unsent, wvertex, wcall, maxSteps, runErr,
                   glog>>

\* break with err, or go on to the next call of the iteration.
Break(err) ==
    /\ runErr' = err
    /\ cpc' = "returned"
    /\ glog' = [glog EXCEPT !.result = err]

EnsureContextNotExpired ==
    /\ cpc = "ctx"
    /\ IF ctxExpired
       THEN Break(ErrCtx)
       ELSE cpc' = "pre" /\ UNCHANGED <<runErr, glog>>
    /\ UNCHANGED <<otherG, gconfig, gbudget, built, gpc, superstep, vertices,
                   aggregators, vertexChOpen, graphErrCh, activeInStep,
                   pendingInStep, unsent, wvertex, wcall, maxSteps,
                   ctxExpired>>

\* A callback returns err; a non-nil err is a fault of the environment.
CallbackReturns(err) ==
    IF err = GNil THEN UNCHANGED gbudget
    ELSE /\ "callback" \in gconfig.faulty
         /\ gbudget.faults > 0
         /\ gbudget' = [gbudget EXCEPT !.faults = @ - 1]

CallbackErrs == {GNil, ErrCallback}

PreStep(err) ==
    /\ cpc = "pre"
    /\ CallbackReturns(err)
    /\ IF err # GNil
       THEN Break(err)
       ELSE cpc' = "step" /\ UNCHANGED <<runErr, glog>>
    /\ UNCHANGED <<otherG, gconfig, built, gpc, superstep, vertices,
                   aggregators, vertexChOpen, graphErrCh, activeInStep,
                   pendingInStep, unsent, wvertex, wcall, maxSteps,
                   ctxExpired>>

\* The vertices of vs that are active or have a message in the queue of
\* the current superstep.
Eligible(vs) ==
    { id \in DOMAIN vs :
        vs[id].active \/ Len(vs[id].msgQueue[(superstep % 2) + 1]) > 0 }

\* The vertices of vs that are inactive.
Frozen(vs) == { id \in DOMAIN vs : ~vs[id].active }

\* step up to the range loop, or to its return when the graph is empty.
Step ==
    /\ cpc = "step"
    /\ activeInStep' = 0
    /\ pendingInStep' = Cardinality(DOMAIN vertices)
    /\ unsent' = DOMAIN vertices
    /\ cpc' = IF DOMAIN vertices = {} THEN "post" ELSE "range"
    /\ glog' = [glog EXCEPT !.steps = @ + 1, !.failed = {},
                            !.eligible = Eligible(vertices),
                            !.frozen = Frozen(vertices),
                            !.computed = NoCounts, !.handled = NoCounts,
                            !.signals = 0]
    /\ UNCHANGED <<otherG, gconfig, gbudget, built, gpc, superstep, vertices,
                   aggregators, vertexChOpen, graphErrCh, wvertex, wcall,
                   maxSteps, runErr, ctxExpired>>

\* <-g.stepCompleteCh: the worker that brought pendingInStep to zero hands
\* over the completion signal.
StepComplete(w) ==
    /\ w \in GraphWorkers
    /\ cpc = "wait"
    /\ gpc[w] = "signal"
    /\ cpc' = "drain"
    /\ gpc' = [gpc EXCEPT ![w] = "recv"]
    /\ glog' = [glog EXCEPT !.signals = @ + 1]
    /\ UNCHANGED <<otherG, gconfig, gbudget, built, superstep, vertices,
                   aggregators, vertexChOpen, graphErrCh, activeInStep,
                   pendingInStep, unsent, wvertex, wcall, maxSteps, runErr,
                   ctxExpired>>

\* The select on errCh that ends step, and run's test of step's error.
StepErr(ch) == IF Len(ch) > 0 THEN Head(ch) ELSE GNil

StepReturn ==
    /\ cpc = "drain"
    /\ graphErrCh' = IF Len(graphErrCh) > 0 THEN Tail(graphErrCh) ELSE <<>>
    /\ IF StepErr(graphErrCh) # GNil
       THEN Break(StepErr(graphErrCh))
       ELSE cpc' = "post" /\ UNCHANGED <<runErr, glog>>
    /\ UNCHANGED <<otherG, gconfig, gbudget, built, gpc, superstep, vertices,
                   aggregators, vertexChOpen, activeInStep, pendingInStep,
                   unsent, wvertex, wcall, maxSteps, ctxExpired>>

PostStep(err) ==
    /\ cpc = "post"
    /\ CallbackReturns(err)
    /\ IF err # GNil
       THEN Break(err)
       ELSE cpc' = "keep" /\ UNCHANGED <<runErr, glog>>
    /\ UNCHANGED <<otherG, gconfig, built, gpc, superstep, vertices,
                   aggregators, vertexChOpen, graphErrCh, activeInStep,
                   pendingInStep, unsent, wvertex, wcall, maxSteps,
                   ctxExpired>>

\* keepRunning as returned by the PostStepKeepRunning of the program.
KeepRunning_StopsWhenIdle == activeInStep > 0

KeepRunning ==
    IF gconfig.keep = "whileActive" THEN activeInStep > 0 ELSE TRUE

\* PostStepKeepRunning, and the end of the iteration: break, or the post
\* statement and the condition of the for loop.  The model follows a run
\* for MaxSupersteps supersteps.
PostStepKeepRunning(err) ==
    /\ cpc = "keep"
    /\ CallbackReturns(err)
    /\ IF ~KeepRunning \/ err # GNil
       THEN /\ Break(err)
            /\ UNCHANGED <<superstep, maxSteps>>
       ELSE /\ superstep + 1 < MaxSupersteps \/ maxSteps = 1
            /\ superstep' = superstep + 1
            /\ maxSteps' = maxSteps - 1
            /\ IF LoopGoesOn(maxSteps - 1)
               THEN cpc' = "ctx" /\ UNCHANGED <<runErr, glog>>
               ELSE Break(GNil)
    /\ UNCHANGED <<otherG, gconfig, built, gpc, vertices, aggregators,
                   vertexChOpen, graphErrCh, activeInStep, pendingInStep,
                   unsent, wvertex, wcall, ctxExpired>>

(***************************************************************************)
(* Reset and Close.                                                        *)
(***************************************************************************)
\* The queues Reset closes: both queues of every vertex.
QueuesOf_FirstOnly(vs) == { <<id, 0>> : id \in DOMAIN vs }

QueuesOf(vs) == { <<id, i>> : id \in DOMAIN vs, i \in 0..1 }

\* message.inMemoryQueue.Close.
QueueClose == GNil

ResetGraph ==
    /\ superstep' = 0
    /\ vertices' = NoVertices
    /\ aggregators' = {}
    /\ glog' = [glog EXCEPT !.result = QueueClose,
                            !.closedQueues = @ \cup QueuesOf(vertices)]

Reset ==
    /\ cpc = "returned"
    /\ ResetGraph
    /\ cpc' = "reset"
    /\ UNCHANGED <<otherG, gconfig, gbudget, built, gpc, vertexChOpen,
                   graphErrCh, activeInStep, pendingInStep, unsent, wvertex,
                   wcall, maxSteps, runErr, ctxExpired>>

\* Close up to wg.Wait().
Close ==
    /\ cpc \in {"returned", "reset"}
    /\ vertexChOpen' = FALSE
    /\ cpc' = "closing"
    /\ UNCHANGED <<otherG, gconfig, gbudget, built, gpc, superstep, vertices,
                   aggregators, graphErrCh, activeInStep, pendingInStep,
                   unsent, wvertex, wcall, maxSteps, runErr, ctxExpired,
                   glog>>

\* wg.Wait() returns and Close calls Reset.
CloseReturn ==
    /\ cpc = "closing"
    /\ \A w \in GraphWorkers : gpc[w] = "exited"
    /\ ResetGraph
    /\ cpc' = "closed"
    /\ UNCHANGED <<otherG, gconfig, gbudget, built, gpc, vertexChOpen,
                   graphErrCh, activeInStep, pendingInStep, unsent, wvertex,
                   wcall, maxSteps, runErr, ctxExpired>>

(***************************************************************************)
(* stepWorker: one compute worker.                                         *)
(***************************************************************************)
\* The queue a worker hands to ComputeFunc in this superstep.
Buffer == superstep % 2

\* v.active || v.msgQueue[buffer].PendingMessage()
ShouldCompute_ActiveOnly(v) == v.active

ShouldCompute(v) == v.active \/ PendingMessage(QueueOf(v, Buffer))

\* g.vertexCh <- v meets a worker waiting in "for v := range g.vertexCh";
\* the worker tests the vertex and, if it is to be computed, counts it and
\* marks it active.
StepWorkerReceive(w, id) ==
    /\ w \in GraphWorkers
    /\ cpc = "range"
    /\ id \in unsent
    /\ gpc[w] = "recv"
    /\ unsent' = unsent \ {id}
    /\ cpc' = IF unsent \ {id} = {} THEN "wait" ELSE "range"
    /\ wvertex' = [wvertex EXCEPT ![w] = id]
    /\ IF ShouldCompute(vertices[id])
       THEN /\ activeInStep' = activeInStep + 1
            /\ vertices' = [vertices EXCEPT ![id].active = TRUE]
            /\ gpc' = [gpc EXCEPT ![w] = "compute"]
       ELSE /\ gpc' = [gpc EXCEPT ![w] = "decr"]
            /\ UNCHANGED <<activeInStep, vertices>>
    /\ UNCHANGED <<otherG, gconfig, gbudget, built, superstep, aggregators,
                   vertexChOpen, graphErrCh, pendingInStep, wcall, maxSteps,
                   runErr, ctxExpired, glog>>

\* The worker w calls a ComputeFunc of the given kind for its vertex.
Computing(w, compute) ==
    /\ w \in GraphWorkers
    /\ gpc[w] = "compute"
    /\ gconfig.compute = compute

Invoked(w) == [glog EXCEPT !.computed[wvertex[w]] = @ + 1]

\* ComputeFunc returns err to stepWorker; dst is the destination of the
\* last message it sent, idx the number of the edge it was sent along.
ReturnsAfter(w, op, edge, dst, err) ==
    /\ gpc' = [gpc EXCEPT ![w] = "computed"]
    /\ wcall' = [wcall EXCEPT ![w] = [op |-> op, idx |-> edge, dst |-> dst,
                                      err |-> err]]

Returns(w, op, err) == ReturnsAfter(w, op, 0, NoVertex, err)

\* ComputeFunc goes on with BroadcastToNeighbors.
Broadcasts(w, op, edges) ==
    IF Len(edges) = 0
    THEN Returns(w, op, GNil)
    ELSE /\ gpc' = [gpc EXCEPT ![w] = "bcast"]
         /\ wcall' = [wcall EXCEPT ![w] = [op |-> op, idx |-> 1,
                                           dst |-> NoVertex, err |-> GNil]]

\* The largest value carried by the messages of a non-empty sequence.
MaxVal(msgs) ==
    CHOOSE m \in { msgs[i].val : i \in DOMAIN msgs } :
        \A i \in DOMAIN msgs : msgs[i].val <= m

\* The sample ComputeFunc.
SampleCompute(w) ==
    LET id == wvertex[w]
        msgs == Messages(QueueOf(vertices[id], Buffer))
    IN  /\ Computing(w, "sample")
        /\ glog' = Invoked(w)
        /\ IF superstep = 0
           THEN IF id = "A"
                THEN /\ Broadcasts(w, "sample", vertices[id].edges)
                     /\ vertices' = IF Len(vertices[id].edges) = 0
                                    THEN Freeze(vertices, id)
                                    ELSE vertices
                ELSE /\ Returns(w, "sample", GNil)
                     /\ UNCHANGED vertices
           ELSE /\ Returns(w, "sample", GNil)
                /\ vertices' =
                     IF Len(msgs) = 0 THEN vertices
                     ELSE [vertices EXCEPT
                             ![id].value = MaxVal(msgs),
                             ![id].msgQueue[Buffer + 1] = <<>>,
                             ![id].active = FALSE]
        /\ UNCHANGED <<otherG, gconfig, gbudget, cpc, built, superstep,
                       aggregators, vertexChOpen, graphErrCh, activeInStep,
                       pendingInStep, unsent, wvertex, maxSteps, runErr,
                       ctxExpired>>

\* An arbitrary ComputeFunc that returns nil without a call on the graph.
ComputeNoop(w) ==
    /\ Computing(w, "any")
    /\ glog' = Invoked(w)
    /\ Returns(w, "noop", GNil)
    /\ UNCHANGED <<otherG, gconfig, gbudget, cpc, built, superstep, vertices,
                   aggregators, vertexChOpen, graphErrCh, activeInStep,
                   pendingInStep, unsent, wvertex, maxSteps, runErr,
                   ctxExpired>>

\* ... that calls v.Freeze().
ComputeFreeze(w) ==
    /\ Computing(w, "any")
    /\ glog' = Invoked(w)
    /\ Returns(w, "freeze", GNil)
    /\ vertices' = Freeze(vertices, wvertex[w])
    /\ UNCHANGED <<otherG, gconfig, gbudget, cpc, built, superstep,
                   aggregators, vertexChOpen, graphErrCh, activeInStep,
                   pendingInStep, unsent, wvertex, maxSteps, runErr,
                   ctxExpired>>

\* ... that iterates over all its messages and stores their number.
ComputeRead(w) ==
    LET id == wvertex[w]
        msgs == Messages(QueueOf(vertices[id], Buffer))
    IN  /\ Computing(w, "any")
        /\ Len(msgs) > 0
        /\ glog' = Invoked(w)
        /\ Returns(w, "read", GNil)
        /\ vertices' = [vertices EXCEPT ![id].value = Len(msgs),
                                        ![id].msgQueue[Buffer + 1] = <<>>]
        /\ UNCHANGED <<otherG, gconfig, gbudget, cpc, built, superstep,
                       aggregators, vertexChOpen, graphErrCh, activeInStep,
                       pendingInStep, unsent, wvertex, maxSteps, runErr,
                       ctxExpired>>

\* ... that returns an error without reading its messages.
ComputeFail(w) ==
    /\ Computing(w, "any")
    /\ "compute" \in gconfig.faulty
    /\ gbudget.faults > 0
    /\ gbudget' = [gbudget EXCEPT !.faults = @ - 1]
    /\ glog' = Invoked(w)
    /\ Returns(w, "fail", ErrCompute)
    /\ UNCHANGED <<otherG, gconfig, cpc, built, superstep, vertices,
                   aggregators, vertexChOpen, graphErrCh, activeInStep,
                   pendingInStep, unsent, wvertex, maxSteps, runErr,
                   ctxExpired>>

\* The log after SendMessage(dstID, msg).
Sent(log, vs, dstID, msg) ==
    [log EXCEPT
       !.sent = IF dstID \in DOMAIN vs THEN @ \cup {<<dstID, msg>>} ELSE @,
       !.relayed = IF SendMessageRelays(vs, dstID)
                   THEN @ \cup {<<dstID, msg>>} ELSE @]

AllIds == VertexIds \cup {RemoteId}

\* ... that calls SendMessage(dstID, msg) and returns its result.
ComputeSend(w, dstID) ==
    LET msg == Message(wvertex[w], superstep, 0)
    IN  /\ Computing(w, "any")
        /\ dstID \in AllIds
        /\ gbudget.sends > 0
        /\ gbudget' = [gbudget EXCEPT !.sends = @ - 1]
        /\ glog' = Sent(Invoked(w), vertices, dstID, msg)
        /\ vertices' = SendMessageTo(vertices, dstID, msg)
        /\ ReturnsAfter(w, "send", 0, dstID, SendMessageErr(vertices, dstID))
        /\ UNCHANGED <<otherG, gconfig, cpc, built, superstep, aggregators,
                       vertexChOpen, graphErrCh, activeInStep, pendingInStep,
                       unsent, wvertex, maxSteps, runErr, ctxExpired>>

\* ... that calls BroadcastToNeighbors(v, msg) and returns its result.
ComputeBroadcast(w) ==
    /\ Computing(w, "any")
    /\ gbudget.sends > 0
    /\ gbudget' = [gbudget EXCEPT !.sends = @ - 1]
    /\ glog' = Invoked(w)
    /\ Broadcasts(w, "bcast", vertices[wvertex[w]].edges)
    /\ UNCHANGED <<otherG, gconfig, cpc, built, superstep, vertices,
                   aggregators, vertexChOpen, graphErrCh, activeInStep,
                   pendingInStep, unsent, wvertex, maxSteps, runErr,
                   ctxExpired>>

\* The message a ComputeFunc broadcasts.
BroadcastMessage(w) ==
    Message(wvertex[w], superstep,
            IF wcall[w].op = "sample" THEN SampleValue ELSE 0)

\* BroadcastToNeighbors returns when SendMessage returned an error.
BroadcastStops_Never(err) == FALSE

BroadcastStops(err) == err # GNil

\* One iteration of the loop of BroadcastToNeighbors: SendMessage to the
\* destination of the next edge; return on its error or after the last
\* edge.  The sample ComputeFunc freezes its vertex after a broadcast that
\* succeeded.
BroadcastToNeighbors(w) ==
    LET id == wvertex[w]
        call == wcall[w]
        edges == vertices[id].edges
        dstID == edges[call.idx].dstID
        err == SendMessageErr(vertices, dstID)
        sentTo == SendMessageTo(vertices, dstID, BroadcastMessage(w))
    IN  /\ w \in GraphWorkers
        /\ gpc[w] = "bcast"
        /\ glog' = Sent(glog, vertices, dstID, BroadcastMessage(w))
        /\ IF BroadcastStops(err)
           THEN /\ ReturnsAfter(w, call.op, call.idx, dstID, err)
                /\ vertices' = sentTo
           ELSE IF call.idx = Len(edges)
           THEN /\ ReturnsAfter(w, call.op, call.idx, dstID, GNil)
                /\ vertices' = IF call.op = "sample"
                               THEN Freeze(sentTo, id) ELSE sentTo
           ELSE /\ wcall' = [wcall EXCEPT ![w].idx = @ + 1,
                                          ![w].dst = dstID]
                /\ vertices' = sentTo
                /\ UNCHANGED gpc
        /\ UNCHANGED <<otherG, gconfig, gbudget, cpc, built, superstep,
                       aggregators, vertexChOpen, graphErrCh, activeInStep,
                       pendingInStep, unsent, wvertex, maxSteps, runErr,
                       ctxExpired>>

\* ComputeFunc has returned: stepWorker reports its error, or discards the
\* messages of the queue it handed to it.
ComputeReturn(w) ==
    LET id == wvertex[w]
        err == wcall[w].err
    IN  /\ w \in GraphWorkers
        /\ gpc[w] = "computed"
        /\ IF err # GNil
           THEN /\ graphErrCh' = TryEmitError(graphErrCh,
                                              ComputeError(id, err))
                /\ glog' = [glog EXCEPT
                              !.failed = @ \cup {id},
                              !.failures = IF glog.failed = {}
                                           THEN @ + 1 ELSE @]
                /\ UNCHANGED vertices
           ELSE /\ vertices' = [vertices EXCEPT ![id].msgQueue[Buffer + 1] =
                                    DiscardMessages(@)]
                /\ UNCHANGED <<graphErrCh, glog>>
        /\ gpc' = [gpc EXCEPT ![w] = "decr"]
        /\ wcall' = [wcall EXCEPT ![w] = NoCall]
        /\ UNCHANGED <<otherG, gconfig, gbudget, cpc, built, superstep,
                       aggregators, vertexChOpen, activeInStep,
                       pendingInStep, unsent, wvertex, maxSteps, runErr,
                       ctxExpired>>

\* The result of the decrement that makes its worker signal completion.
ReachedZero_Early(pending) == pending <= 1

ReachedZero(pending) == pending = 0

\* atomic.AddInt64(&g.pendingInStep, -1) and the test of its result.
Decrement(w) ==
    /\ w \in GraphWorkers
    /\ gpc[w] = "decr"
    /\ pendingInStep' = pendingInStep - 1
    /\ gpc' = [gpc EXCEPT ![w] = IF ReachedZero(pendingInStep - 1)
                                 THEN "signal" ELSE "recv"]
    /\ glog' = [glog EXCEPT !.handled[wvertex[w]] = @ + 1]
    /\ UNCHANGED <<otherG, gconfig, gbudget, cpc, built, superstep, vertices,
                   aggregators, vertexChOpen, graphErrCh, activeInStep,
                   unsent, wvertex, wcall, maxSteps, runErr, ctxExpired>>

\* The range over the closed vertexCh ends: wg.Done().
WorkerExit(w) ==
    /\ w \in GraphWorkers
    /\ gpc[w] = "recv"
    /\ ~vertexChOpen
    /\ gpc' = [gpc EXCEPT ![w] = "exited"]
    /\ UNCHANGED <<otherG, gconfig, gbudget, cpc, built, superstep, vertices,
                   aggregators, vertexChOpen, graphErrCh, activeInStep,
                   pendingInStep, unsent, wvertex, wcall, maxSteps, runErr,
                   ctxExpired, glog>>

(***************************************************************************)
(* Next-state relations and specifications.                                *)
(***************************************************************************)
GraphWorkerIds == 1..MaxComputeWorkers

\* Steps of the client outside the executor, and of the environment.
GraphEnvNext ==
    \/ AddVertex
    \/ AddEdge
    \/ SetValue
    \/ RegisterAggregator
    \/ NewExecutor
    \/ Run
    \/ CtxExpire
    \/ Reset
    \/ Close

\* Steps of the executor loop, of the compute workers and of Close once
\* it has been called.
GraphSystemNext ==
    \/ EnsureContextNotExpired
    \/ \E err \in CallbackErrs : PreStep(err)
    \/ Step
    \/ \E w \in GraphWorkerIds, id \in VertexIds : StepWorkerReceive(w, id)
    \/ \E w \in GraphWorkerIds : SampleCompute(w)
    \/ \E w \in GraphWorkerIds : ComputeNoop(w)
    \/ \E w \in GraphWorkerIds : ComputeFreeze(w)
    \/ \E w \in GraphWorkerIds : ComputeRead(w)
    \/ \E w \in GraphWorkerIds : ComputeFail(w)
    \/ \E w \in GraphWorkerIds, dstID \in AllIds : ComputeSend(w, dstID)
    \/ \E w \in GraphWorkerIds : ComputeBroadcast(w)
    \/ \E w \in GraphWorkerIds : BroadcastToNeighbors(w)
    \/ \E w \in GraphWorkerIds : ComputeReturn(w)
    \/ \E w \in GraphWorkerIds : Decrement(w)
    \/ \E w \in GraphWorkerIds : StepComplete(w)
    \/ StepReturn
    \/ \E err \in CallbackErrs : PostStep(err)
    \/ \E err \in CallbackErrs : PostStepKeepRunning(err)
    \/ \E w \in GraphWorkerIds : WorkerExit(w)
    \/ CloseReturn

GraphNext == GraphEnvNext \/ GraphSystemNext

(***************************************************************************)
(* Part 3: the in-memory link graph store (package memory), its link       *)
(* iterator and the graph-updater stage of the crawler.                    *)
(*                                                                         *)
(* A UUID is a number of UUIDLen digits in base UUIDBase, a time is a      *)
(* number (0 is the zero time.Time).  Every store call is made by a client *)
(* goroutine; a call that takes the write lock, works and releases it is   *)
(* one step, a call that leaves the mutex in another state than it found   *)
(* it is one step up to that point.  A goroutine blocked in RLock or Lock  *)
(* is a client whose step is not enabled.                                  *)
(***************************************************************************)
\* Digits of a UUID (16 bytes in the program).
UUIDLen == 2

\* uuid.Nil.
NilUUID == 0

\* The UUID ffffffff-ffff-ffff-ffff-ffffffffffff.
MaxUUID == (UUIDBase * UUIDBase) - 1

UUIDs == NilUUID..MaxUUID

\* The values uuid.New() can return: version 4 UUIDs, never uuid.Nil nor
\* the maximum UUID.
V4UUIDs == {1, 5, 7, 10, 11, 14}

\* The URLs the clients know.
URLs == {"a", "b", "c"}

Times == 0..MaxTime

\* time.Time.Before and time.Time.After.
Before(t, u) == t < u

\* A comparison that never finds the stored time the later one.
After_Never(t, u) == FALSE

After(t, u) == t > u

\* UUID.String(): the digits of the UUID, most significant first.
String(id) == <<id \div UUIDBase, id % UUIDBase>>

\* The order of Go's string comparison on two strings of the same length.
StringLess(x, y) ==
    \E i \in 1..UUIDLen :
        /\ x[i] < y[i]
        /\ \A j \in 1..(i - 1) : x[j] = y[j]

\* big.Int.Bytes(): the digits of n without leading zeros.
Bytes(n) ==
    IF n = 0 THEN <<>>
    ELSE IF n < UUIDBase THEN <<n>>
    ELSE <<n \div UUIDBase, n % UUIDBase>>

\* uuid.FromBytes: the UUID of exactly UUIDLen digits, or an error.
FromBytes(b) ==
    IF Len(b) = UUIDLen
    THEN [ok |-> TRUE, id |-> (b[1] * UUIDBase) + b[2]]
    ELSE [ok |-> FALSE, id |-> NilUUID]

\* SuiteBase.partitionRange: the extents of a partition, or the failure of
\* the conversion of an extent to a UUID.
PartitionRange(partition, numPartitions) ==
    LET partSize == MaxUUID \div numPartitions
        from == IF partition = 0
                THEN [ok |-> TRUE, id |-> NilUUID]
                ELSE FromBytes(Bytes(partSize * partition))
        to == IF partition = numPartitions - 1
              THEN [ok |-> TRUE, id |-> MaxUUID]
              ELSE FromBytes(Bytes(partSize * (partition + 1)))
    IN  [ok |-> from.ok /\ to.ok, from |-> from.id, to |-> to.id]

\* graph.Link and graph.Edge.
Link(id, url, retrievedAt) ==
    [ID |-> id, URL |-> url, RetrievedAt |-> retrievedAt]

Edge(id, src, dst, updatedAt) ==
    [ID |-> id, Src |-> src, Dst |-> dst, UpdatedAt |-> updatedAt]

\* graph.ErrUnknownEdgeLinks, and nil.
ErrUnknownEdgeLinks == "unknown source and/or destination or edge"

LNil == "nil"

\* NewInMemoryGraph: the empty maps.
NoLinks == [id \in {} |-> Link(id, "", 0)]

NoEdges == [id \in {} |-> Edge(id, NilUUID, NilUUID, 0)]

NoEdgeLists == [id \in UUIDs |-> <<>>]

\* The zero value of sync.RWMutex: readers holding the lock (readerCount),
\* a writer that has announced itself (readerCount is negative, the inner
\* mutex is held), the departures that writer waits for (readerWait), the
\* wake-ups left in the readers' semaphore (readerSem) and in the writers'
\* semaphore (writerSem).
NewRWMutex ==
    [readers |-> 0, writer |-> FALSE, wait |-> 0, permits |-> 0, sem |-> 0]

\* The IDs of the stored links with this URL.
LinkURLIndex(ls, url) == { id \in DOMAIN ls : ls[id].URL = url }

\* make(map[string]*graph.Link): no URL has a link.  The entry of a URL is
\* the ID of the link object it points to, uuid.Nil for the nil pointer.
NoURLIndex == [u \in URLs |-> NilUUID]

\* An insertion that leaves the URL index as it was.
Indexed_Never(index, lCopy) == index

\* s.linkURLIndex[lCopy.URL] = lCopy.
Indexed(index, lCopy) == [index EXCEPT ![lCopy.URL] = lCopy.ID]

\* UpsertLink between Lock and Unlock: the links and the URL index after
\* the call and the link handed back to the caller; id is what uuid.New()
\* returns.
UpsertLinkIn(ls, index, link, id) ==
    IF index[link.URL] # NilUUID
    THEN LET existing == index[link.URL]
             origTs == ls[existing].RetrievedAt
         IN  [links |-> [ls EXCEPT ![existing] =
                            Link(existing, link.URL,
                                 IF After(origTs, link.RetrievedAt)
                                 THEN origTs ELSE link.RetrievedAt)],
              index |-> index,
              link |-> [link EXCEPT !.ID = existing]]
    ELSE [links |-> [i \in DOMAIN ls \cup {id} |->
                        IF i = id
                        THEN Link(id, link.URL, link.RetrievedAt)
                        ELSE ls[i]],
          index |-> Indexed(index, [link EXCEPT !.ID = id]),
          link |-> [link EXCEPT !.ID = id]]

\* A check of the ends that looks at the source only.
EndsExist_SrcOnly(ls, edge) == edge.Src \in DOMAIN ls

\* srcExists && dstExists.
EndsExist(ls, edge) == edge.Src \in DOMAIN ls /\ edge.Dst \in DOMAIN ls

\* The test UpsertEdge makes to recognise the edge it is given among the
\* edges of its source.
SameEdge(existing, edge) ==
    existing.Src = edge.Src /\ existing.Dst = edge.Src

\* The positions in the edge list of edge.Src that UpsertEdge recognises.
Recognised(es, list, edge) ==
    { k \in 1..Len(list) : SameEdge(es[list[k]], edge) }

Lowest(S) == CHOOSE k \in S : \A j \in S : k <= j

\* UpsertEdge between Lock and Unlock: the result, the edges and edge lists
\* after the call and the edge handed back; id is what uuid.New() returns
\* and t what time.Now() returns.
UpsertEdgeIn(ls, es, lists, edge, id, t) ==
    IF ~EndsExist(ls, edge)
    THEN [err |-> ErrUnknownEdgeLinks, edges |-> es, lists |-> lists,
          edge |-> edge]
    ELSE IF Recognised(es, lists[edge.Src], edge) # {}
    THEN LET edgeID ==
                 lists[edge.Src][Lowest(Recognised(es, lists[edge.Src],
                                                   edge))]
             existing == [es[edgeID] EXCEPT !.UpdatedAt = t]
         IN  [err |-> LNil, edges |-> [es EXCEPT ![edgeID] = existing],
              lists |-> lists, edge |-> existing]
    ELSE LET eCopy == Edge(id, edge.Src, edge.Dst, t)
         IN  [err |-> LNil,
              edges |-> [i \in DOMAIN es \cup {id} |->
                            IF i = id THEN eCopy ELSE es[i]],
              lists |-> [lists EXCEPT ![edge.Src] = Append(@, id)],
              edge |-> eCopy]

\* A test that also finds an edge updated at the cutoff stale.
Stale_AtCutoff(edge, updatedBefore) == edge.UpdatedAt <= updatedBefore

\* The test RemoveStaleEdges makes on an edge of the list.
Stale(edge, updatedBefore) == Before(edge.UpdatedAt, updatedBefore)

\* RemoveStaleEdges between Lock and Unlock.
RemoveStaleEdgesIn(es, lists, fromID, updatedBefore) ==
    LET list == lists[fromID]
        gone == { list[k] : k \in { j \in 1..Len(list) :
                                       Stale(es[list[j]], updatedBefore) } }
    IN  [edges |-> [i \in DOMAIN es \ gone |-> es[i]],
         lists |-> [lists EXCEPT ![fromID] =
                       SelectSeq(list, LAMBDA e : e \notin gone)]]

\* The test Links makes on a stored link.
InRange(id, link, fromID, toID, retrievedBefore) ==
    /\ ~StringLess(String(id), String(fromID))
    /\ StringLess(String(id), String(toID))
    /\ Before(link.RetrievedAt, retrievedBefore)

\* The links Links collects, as the set of their IDs.
Matching(ls, fromID, toID, retrievedBefore) ==
    { id \in DOMAIN ls : InRange(id, ls[id], fromID, toID, retrievedBefore) }

\* The orders in which the range over the map can visit a set of links.
Orders(S) ==
    { q \in [1..Cardinality(S) -> S] : \A i, j \in DOMAIN q :
                                           q[i] = q[j] => i = j }

(***************************************************************************)
(* Store scenarios.                                                        *)
(***************************************************************************)
\* crawlerPayload, as far as the graph updater reads it.
CrawlerPayload(id, url, noFollow, follow) ==
    [LinkID |-> id, URL |-> url, NoFollowLinks |-> noFollow,
     Links |-> follow]

NoPayloads == {}

\* The payloads of the page "a": with and without no-follow and follow
\* URLs.
PagePayloads ==
    { CrawlerPayload(NilUUID, "a", noFollow, follow) :
        noFollow \in {<<>>, <<"b">>}, follow \in {<<>>, <<"c">>} }

\* A store scenario: the number of client goroutines, the calls they make
\* (the operations, the number of Upsert and Remove calls, the URLs and the
\* RetrievedAt values they submit), the UUIDs uuid.New() hands out one
\* after the other, the partition scans the clients start and the partition
\* counts of these, and the payloads the graph updater may be given.
StoreConfig(clients, ops, writes, urls, times, stream, scans, totals,
            payloads) ==
    [clients |-> clients, ops |-> ops, writes |-> writes, urls |-> urls,
     times |-> times, uuids |-> stream, scans |-> scans, totals |-> totals,
     payloads |-> payloads]

NoStoreConfig == StoreConfig(0, {}, 0, {}, {}, <<>>, 0, {}, NoPayloads)

\* One client that upserts links and edges and then reads the edges.
EdgeScanConfigs ==
    { StoreConfig(1, {"UpsertLink", "UpsertEdge", "Edges"},
                  MaxSetupCalls, {"a", "b"}, {0}, <<5, 10, 14>>, 0, {},
                  NoPayloads) }

\* One client that upserts links.
LinkConfigs ==
    { StoreConfig(1, {"UpsertLink"}, MaxStoreCalls, {"a", "b"}, Times,
                  <<5, 10>>, 0, {}, NoPayloads) }

\* One client that upserts two links and then upserts and removes edges.
EdgeConfigs ==
    { StoreConfig(1, {"UpsertLink", "UpsertEdge", "RemoveStaleEdges"},
                  MaxStoreCalls + 2, {"a", "b"}, {0}, <<5, 10, 14, 1, 11>>,
                  0, {}, NoPayloads) }

\* Clients that fill the store and scan it, partition by partition.
ScanConfigs ==
    { StoreConfig(clients, {"UpsertLink"}, 2, {"a", "b"}, {0, 2}, stream,
                  MaxScans, {total}, NoPayloads) :
        clients \in 1..MaxStoreClients,
        stream \in {<<1, 5>>, <<7, 10>>, <<14, 10>>},
        total \in 1..MaxPartitions }

\* A client that fills the store, and the graph updater.
UpdaterConfigs ==
    { StoreConfig(1, {"UpsertLink", "UpsertEdge"}, MaxSetupCalls,
                  {"a", "b"}, {0}, <<5, 10, 14, 1, 11>>, 0, {},
                  PagePayloads) }

\* Two clients: while one reads (FindLink, Edges) the other makes a call
\* that takes the write lock.
WriterConfigs ==
    { StoreConfig(MaxStoreClients, ops, writes, {"a"}, {0}, <<5, 10>>, 0,
                  {}, NoPayloads) :
        <<ops, writes>> \in
            { <<{"UpsertLink", "UpsertEdge", "RemoveStaleEdges",
                 "FindLink"}, MaxSetupCalls>>,
              <<{"UpsertLink", "Edges"}, MaxSetupCalls - 1>> } }

StoreConfigs ==
    LinkConfigs \cup EdgeConfigs \cup ScanConfigs \cup UpdaterConfigs
        \cup EdgeScanConfigs \cup WriterConfigs

StoreClients == 1..lconfig.clients

NoIterator == [links |-> <<>>, curIndex |-> 0]

\* A partition scan (SuiteBase.iteratePartitionedLinks): the partition
\* count, the partition being read, its extents and filter, and the IDs of
\* the links the iterators returned so far; whether the links and the
\* clock have stayed as they were when the scan began.
NoScan ==
    [state |-> "none", total |-> 0, partition |-> 0, from |-> NilUUID,
     to |-> NilUUID, filter |-> 0, seen |-> <<>>, steady |-> TRUE]

\* The scans after a step that changes the links or the time: the scans
\* under way have not seen the store at one moment.
Disturbed(scans) ==
    [c \in DOMAIN scans |->
        IF scans[c].state = "running"
        THEN [scans[c] EXCEPT !.steady = FALSE] ELSE scans[c]]

\* A call of Edges and the edgeIterator it returns: the order in which the
\* range over the map visits the links and the links visited, the
\* arguments, the edges collected (their IDs stand for the pointers),
\* curIndex, and the edges the consumer has been given.
NoEdgeScan ==
    [state |-> "none", order |-> <<>>, i |-> 0, from |-> NilUUID,
     to |-> NilUUID, updatedBefore |-> 0, edges |-> <<>>, curIndex |-> 0,
     trues |-> 0, seen |-> <<>>]

\* graphUpdater.Process at rest.
NoUpdate ==
    [pc |-> "idle", payload |-> CrawlerPayload(NilUUID, "", <<>>, <<>>),
     src |-> Link(NilUUID, "", 0), dst |-> Link(NilUUID, "", 0), i |-> 0,
     removeEdgesOlderThan |-> 0, had |-> {}, before |-> {},
     refreshed |-> {},
     err |-> LNil]

\* graph.ErrNotFound, and how FindLink wraps it.
ErrNotFound == "not found"

FindLinkError(err) == "find link: " \o err

NoStoreCall ==
    [op |-> "none", by |-> 0, link |-> Link(NilUUID, "", 0),
     src |-> NilUUID, dst |-> NilUUID,
     edge |-> Edge(NilUUID, NilUUID, NilUUID, 0), from |-> NilUUID,
     updatedBefore |-> 0, err |-> LNil]

\* No call of the client waits in Lock or reads under the read lock; seq
\* is the place of a waiting call in the queue of the writers' semaphore.
NoPending == [call |-> NoStoreCall, seq |-> 0]

\* The history: the calls made, for each URL the ID its first UpsertLink
\* returned and the RetrievedAt values submitted, the (Src, Dst) pairs
\* upserted, the scans started and the calls of RemoveStaleEdges.
NewStoreLog ==
    [calls |-> 0, firstID |-> [u \in URLs |-> NilUUID],
     submitted |-> [u \in URLs |-> {}], upserted |-> {}, removals |-> 0,
     scans |-> 0, finds |-> 0]

\* The history after an UpsertLink call that submitted link and handed back
\* the ID id.
Submitted(log, link, id) ==
    [log EXCEPT !.firstID[link.URL] = IF @ = NilUUID THEN id ELSE @,
                !.submitted[link.URL] = @ \cup {link.RetrievedAt}]

StoreInit(configs) ==
    /\ lconfig \in configs
    /\ links = NoLinks
    /\ linkURLIndex = NoURLIndex
    /\ storeEdges = NoEdges
    /\ linkEdgeMap = NoEdgeLists
    /\ mu = NewRWMutex
    /\ crashed = FALSE
    /\ now = 1
    /\ uuids = lconfig.uuids
    /\ lpc = [c \in StoreClients |-> "idle"]
    /\ lreq = [c \in StoreClients |-> NoPending]
    /\ iter = [c \in StoreClients |-> NoIterator]
    /\ scan = [c \in StoreClients |-> NoScan]
    /\ escan = [c \in StoreClients |-> NoEdgeScan]
    /\ upd = NoUpdate
    /\ lcall = NoStoreCall
    /\ llog = NewStoreLog

(***************************************************************************)
(* sync.RWMutex.                                                           *)
(***************************************************************************)
\* Lock can take the inner mutex: no writer has announced itself.
CanLock == ~crashed /\ ~mu.writer

\* Lock: the writer announces itself and, if readers are counted, adds
\* them to the departures it waits for.
LockWaits ==
    [mu EXCEPT !.writer = TRUE,
               !.wait = IF mu.readers # 0 THEN @ + mu.readers ELSE @]

\* Lock returns without sleeping: no reader is counted, or no departure is
\* left to wait for (r != 0 && rw.readerWait.Add(r) != 0 is false).
LockReturnsAtOnce == mu.readers = 0 \/ mu.wait + mu.readers = 0

\* RLock returns: no writer has announced itself, or a wake-up is left.
CanRLock == ~crashed /\ (~mu.writer \/ mu.permits > 0)

RLock ==
    [mu EXCEPT !.readers = @ + 1,
               !.permits = IF mu.writer THEN @ - 1 ELSE @]

\* Unlock without the write lock held is a fatal error of the runtime.
UnlockIsFatal == ~mu.writer

\* RUnlock without a reader counted is a fatal error of the runtime.
RUnlockIsFatal == mu.readers = 0

\* RUnlock of a reader: it is counted out; when a writer has announced
\* itself it is also counted out of the departures the writer waits for,
\* and the last of these leaves a wake-up in the writers' semaphore.
RUnlock ==
    [mu EXCEPT !.readers = @ - 1,
               !.wait = IF mu.writer THEN @ - 1 ELSE @,
               !.sem = IF mu.writer /\ mu.wait - 1 = 0 THEN @ + 1 ELSE @]

\* Unlock called by a reader while a writer has announced itself: the
\* announcement is withdrawn, a wake-up is left for every reader counted and
\* the inner mutex is released; the reader stays counted.
UnlockByReader ==
    [mu EXCEPT !.writer = FALSE, !.permits = @ + mu.readers]

\* The mutex after the Unlock with which Links and linkIterator.Link
\* release their read lock, and whether the program survives it.
Released ==
    IF UnlockIsFatal
    THEN [fatal |-> TRUE, mu |-> mu]
    ELSE [fatal |-> FALSE, mu |-> UnlockByReader]

\* The mutex m after a call of Unlock (the deferred Unlock of a writer, or
\* the Unlock with which edgeIterator.Edge releases the read lock it has
\* just taken), and whether the program survives it.
ReleasedFrom(m) ==
    IF ~m.writer
    THEN [fatal |-> TRUE, mu |-> m]
    ELSE [fatal |-> FALSE,
          mu |-> [m EXCEPT !.writer = FALSE, !.permits = @ + m.readers]]

\* The mutex after a call of RUnlock, and whether the program survives it.
RReleased ==
    IF RUnlockIsFatal
    THEN [fatal |-> TRUE, mu |-> mu]
    ELSE [fatal |-> FALSE, mu |-> RUnlock]

(***************************************************************************)
(* The clients of the store.                                               *)
(***************************************************************************)
ClockTick ==
    /\ lconfig.clients > 0
    /\ ~crashed
    /\ now < MaxTime
    /\ now' = now + 1
    /\ scan' = Disturbed(scan)
    /\ UNCHANGED <<otherL, lreq, escan, lconfig, links, linkURLIndex,
                   storeEdges, linkEdgeMap, mu, crashed, uuids, lpc, iter, upd,
                   lcall, llog>>

\* The client c may make the Upsert or Remove call op.
Calling(c, op) ==
    /\ c \in StoreClients
    /\ op \in lconfig.ops
    /\ lpc[c] = "idle"
    /\ upd.pc = "idle"
    /\ llog.calls < lconfig.writes
    /\ CanLock

\* uuid.New() until the UUID is no key of the map m: the positions of the
\* stream that hold such a UUID, the UUID handed out and the stream left.
Unused(m) == { k \in 1..Len(uuids) : uuids[k] \notin DOMAIN m }

New(m) == uuids[Lowest(Unused(m))]

AfterNew(m) == SubSeq(uuids, Lowest(Unused(m)) + 1, Len(uuids))

\* The call draws a UUID for a new entry of m, if it needs one.
Draws(m, needed) ==
    IF needed
    THEN Unused(m) # {} /\ uuids' = AfterNew(m)
    ELSE uuids' = uuids

\* The UUID of the call: drawn if needed (uuid.Nil is never used then).
Drawn(m, needed) == IF needed THEN New(m) ELSE NilUUID

\* UpsertLink and UpsertEdge make a new entry for this argument.
IsNewLink(link) == linkURLIndex[link.URL] = NilUUID

IsNewEdge(edge) ==
    /\ EndsExist(links, edge)
    /\ Recognised(storeEdges, linkEdgeMap[edge.Src], edge) = {}

\* A UUID the client made itself with uuid.New(): the ID of no link.
StrayUUIDs == {7}

\* The UUIDs a client passes as the ends of an edge or as a source: the
\* IDs of the stored links, uuid.Nil and the UUID of its own.
KnownIDs == DOMAIN links \cup {NilUUID} \cup StrayUUIDs

\* UpsertLink between Lock and the deferred Unlock; log is the history
\* with the call counted.
UpsertLinkLocked(c, url, retrievedAt, log) ==
    LET link == Link(NilUUID, url, retrievedAt)
        r == UpsertLinkIn(links, linkURLIndex, link,
                          Drawn(links, IsNewLink(link)))
    IN  /\ Draws(links, IsNewLink(link))
        /\ links' = r.links
        /\ linkURLIndex' = r.index
        /\ lcall' = [NoStoreCall EXCEPT !.op = "UpsertLink",
                                        !.by = c, !.link = r.link]
        /\ llog' = Submitted(log, link, r.link.ID)
        /\ scan' = Disturbed(scan)
        /\ UNCHANGED <<storeEdges, linkEdgeMap>>

\* UpsertEdge between Lock and the deferred Unlock.
UpsertEdgeLocked(c, src, dst, log) ==
    LET edge == Edge(NilUUID, src, dst, 0)
        r == UpsertEdgeIn(links, storeEdges, linkEdgeMap, edge,
                          Drawn(storeEdges, IsNewEdge(edge)), now)
    IN  /\ Draws(storeEdges, IsNewEdge(edge))
        /\ storeEdges' = r.edges
        /\ linkEdgeMap' = r.lists
        /\ lcall' = [NoStoreCall EXCEPT
               !.op = "UpsertEdge", !.by = c, !.src = src,
               !.dst = dst, !.edge = r.edge, !.err = r.err]
        /\ llog' = [log EXCEPT
               !.upserted = IF r.err = LNil
                            THEN @ \cup {<<src, dst>>} ELSE @]
        /\ UNCHANGED <<links, linkURLIndex, scan>>

\* RemoveStaleEdges between Lock and the deferred Unlock.
RemoveStaleEdgesLocked(c, fromID, updatedBefore, log) ==
    LET r == RemoveStaleEdgesIn(storeEdges, linkEdgeMap, fromID,
                                updatedBefore)
    IN  /\ storeEdges' = r.edges
        /\ linkEdgeMap' = r.lists
        /\ lcall' = [NoStoreCall EXCEPT
               !.op = "RemoveStaleEdges", !.by = c, !.from = fromID,
               !.updatedBefore = updatedBefore]
        /\ llog' = [log EXCEPT !.removals = @ + 1]
        /\ UNCHANGED <<links, linkURLIndex, uuids, scan>>

\* The body of the call a client makes, with the write lock held.
Locked(call, log) ==
    CASE call.op = "UpsertLink" ->
            UpsertLinkLocked(call.by, call.link.URL, call.link.RetrievedAt,
                             log)
      [] call.op = "UpsertEdge" ->
            UpsertEdgeLocked(call.by, call.src, call.dst, log)
      [] OTHER ->
            RemoveStaleEdgesLocked(call.by, call.from, call.updatedBefore,
                                   log)

\* The call of c finds readers to wait for and sleeps in Lock.
WaitsInLock(c, call) ==
    /\ mu' = LockWaits
    /\ lpc' = [lpc EXCEPT ![c] = "lockwait"]
    /\ lreq' = [lreq EXCEPT
                      ![c] = [call |-> call, seq |-> llog.calls + 1]]
    /\ llog' = [llog EXCEPT !.calls = @ + 1]
    /\ UNCHANGED <<links, linkURLIndex, storeEdges, linkEdgeMap, uuids,
                   lcall, scan>>

\* s.mu.Lock(); defer s.mu.Unlock() and the body of the call: in one step
\* when Lock returns at once, else the call sleeps in Lock.
StoreCall(c, call) ==
    IF LockReturnsAtOnce
    THEN /\ Locked(call, [llog EXCEPT !.calls = @ + 1])
         /\ mu' = ReleasedFrom(LockWaits).mu
         /\ UNCHANGED <<lpc, lreq>>
    ELSE WaitsInLock(c, call)

UpsertLink(c, url, retrievedAt) ==
    /\ Calling(c, "UpsertLink")
    /\ url \in lconfig.urls
    /\ retrievedAt \in lconfig.times
    /\ StoreCall(c, [NoStoreCall EXCEPT
                        !.op = "UpsertLink", !.by = c,
                        !.link = Link(NilUUID, url, retrievedAt)])
    /\ UNCHANGED <<otherL, escan, lconfig, crashed, now, iter, upd>>

UpsertEdge(c, src, dst) ==
    /\ Calling(c, "UpsertEdge")
    /\ src \in KnownIDs
    /\ dst \in KnownIDs
    /\ StoreCall(c, [NoStoreCall EXCEPT
                        !.op = "UpsertEdge", !.by = c, !.src = src,
                        !.dst = dst])
    /\ UNCHANGED <<otherL, escan, lconfig, crashed, now, iter, upd>>

RemoveStaleEdges(c, fromID, updatedBefore) ==
    /\ Calling(c, "RemoveStaleEdges")
    /\ fromID \in KnownIDs
    /\ StoreCall(c, [NoStoreCall EXCEPT
                        !.op = "RemoveStaleEdges", !.by = c,
                        !.from = fromID, !.updatedBefore = updatedBefore])
    /\ UNCHANGED <<otherL, escan, lconfig, crashed, now, iter, upd>>

\* The call of c is the first in the queue of the writers' semaphore.
FirstInLock(c) ==
    \A d \in StoreClients :
        lpc[d] = "lockwait" => lreq[c].seq <= lreq[d].seq

\* Lock returns to a call that slept in it: a departing reader left a
\* wake-up.  The body of the call and its deferred Unlock follow.
LockReturns(c) ==
    /\ c \in StoreClients
    /\ lpc[c] = "lockwait"
    /\ ~crashed
    /\ mu.sem > 0
    /\ FirstInLock(c)
    /\ Locked(lreq[c].call, llog)
    /\ LET r == ReleasedFrom([mu EXCEPT !.sem = @ - 1])
       IN  crashed' = r.fatal /\ mu' = r.mu
    /\ lpc' = [lpc EXCEPT ![c] = "idle"]
    /\ lreq' = [lreq EXCEPT ![c] = NoPending]
    /\ UNCHANGED <<otherL, escan, lconfig, now, iter, upd>>

\* FindLink up to its return: s.mu.RLock(); defer s.mu.RUnlock().
FindLinkRLock(c, id) ==
    /\ c \in StoreClients
    /\ "FindLink" \in lconfig.ops
    /\ lpc[c] = "idle"
    /\ llog.finds < MaxFinds
    /\ id \in KnownIDs
    /\ CanRLock
    /\ mu' = RLock
    /\ lpc' = [lpc EXCEPT ![c] = "findLink"]
    /\ lreq' = [lreq EXCEPT
           ![c] = [NoPending EXCEPT
                      !.call = [NoStoreCall EXCEPT
                                   !.op = "FindLink", !.by = c,
                                   !.link = Link(id, "", 0)]]]
    /\ llog' = [llog EXCEPT !.finds = @ + 1]
    /\ UNCHANGED <<otherL, escan, lconfig, links, linkURLIndex, storeEdges,
                   linkEdgeMap, crashed, now, uuids, iter, scan, upd, lcall>>

\* FindLink returns a copy of the link, or the wrapped graph.ErrNotFound;
\* the deferred RUnlock runs.
FindLinkReturn(c) ==
    /\ c \in StoreClients
    /\ lpc[c] = "findLink"
    /\ ~crashed
    /\ LET id == lreq[c].call.link.ID
       IN  lcall' =
               IF RReleased.fatal THEN lcall
               ELSE IF id \in DOMAIN links
                    THEN [lreq[c].call EXCEPT !.link = links[id]]
                    ELSE [lreq[c].call EXCEPT
                             !.link = Link(NilUUID, "", 0),
                             !.err = FindLinkError(ErrNotFound)]
    /\ crashed' = RReleased.fatal
    /\ mu' = RReleased.mu
    /\ lpc' = [lpc EXCEPT ![c] = "idle"]
    /\ lreq' = [lreq EXCEPT ![c] = NoPending]
    /\ UNCHANGED <<otherL, escan, lconfig, links, linkURLIndex, storeEdges,
                   linkEdgeMap, now, uuids, iter, scan, upd, llog>>

\* SuiteBase.iteratePartitionedLinks(numPartitions) begins.
IteratePartitionedLinks(c, numPartitions) ==
    /\ c \in StoreClients
    /\ lpc[c] = "idle"
    /\ ~crashed
    /\ llog.scans < lconfig.scans
    /\ numPartitions \in lconfig.totals
    /\ scan' = [scan EXCEPT ![c] = [NoScan EXCEPT
                                       !.state = "running",
                                       !.total = numPartitions]]
    /\ lpc' = [lpc EXCEPT ![c] = "range"]
    /\ llog' = [llog EXCEPT !.scans = @ + 1]
    /\ UNCHANGED <<otherL, lreq, escan, lconfig, links, linkURLIndex,
                   storeEdges, linkEdgeMap, mu, crashed, now, uuids, iter, upd,
                   lcall>>

\* SuiteBase.partitionedLinkIterator up to the call of Links: the extents
\* of the partition and the filter time.Now().
PartitionedLinkIterator(c) ==
    /\ c \in StoreClients
    /\ lpc[c] = "range"
    /\ ~crashed
    /\ LET r == PartitionRange(scan[c].partition, scan[c].total)
       IN  IF r.ok
           THEN /\ scan' = [scan EXCEPT ![c].from = r.from, ![c].to = r.to,
                                        ![c].filter = now]
                /\ lpc' = [lpc EXCEPT ![c] = "callLinks"]
           ELSE /\ scan' = [scan EXCEPT ![c].state = "failed"]
                /\ lpc' = [lpc EXCEPT ![c] = "idle"]
    /\ UNCHANGED <<otherL, lreq, escan, lconfig, links, linkURLIndex,
                   storeEdges, linkEdgeMap, mu, crashed, now, uuids, iter, upd,
                   lcall, llog>>

\* Links up to its call of Unlock: the read lock is taken and the matching
\* links are collected in the order the map hands them out.
LinksRLock(c) ==
    /\ c \in StoreClients
    /\ lpc[c] = "callLinks"
    /\ CanRLock
    /\ mu' = RLock
    /\ \E list \in Orders(Matching(links, scan[c].from, scan[c].to,
                                    scan[c].filter)) :
           iter' = [iter EXCEPT ![c] = [links |-> list, curIndex |-> 0]]
    /\ lpc' = [lpc EXCEPT ![c] = "links"]
    /\ UNCHANGED <<otherL, lreq, escan, lconfig, links, linkURLIndex,
                   storeEdges, linkEdgeMap, crashed, now, uuids, scan, upd,
                   lcall, llog>>

\* Links from its call of Unlock: the iterator is returned, or the program
\* stops.
LinksUnlock(c) ==
    /\ c \in StoreClients
    /\ lpc[c] = "links"
    /\ ~crashed
    /\ crashed' = Released.fatal
    /\ mu' = Released.mu
    /\ lpc' = [lpc EXCEPT ![c] = "next"]
    /\ UNCHANGED <<otherL, lreq, escan, lconfig, links, linkURLIndex,
                   storeEdges, linkEdgeMap, now, uuids, iter, scan, upd, lcall,
                   llog>>

\* linkIterator.Next, and what the scan does when it returns false: the
\* next partition, or the end of the scan.
IteratorNext(c) ==
    /\ c \in StoreClients
    /\ lpc[c] = "next"
    /\ ~crashed
    /\ IF iter[c].curIndex >= Len(iter[c].links)
       THEN /\ iter' = [iter EXCEPT ![c] = NoIterator]
            /\ IF scan[c].partition + 1 < scan[c].total
               THEN /\ scan' = [scan EXCEPT ![c].partition = @ + 1]
                    /\ lpc' = [lpc EXCEPT ![c] = "range"]
               ELSE /\ scan' = [scan EXCEPT ![c].state = "done"]
                    /\ lpc' = [lpc EXCEPT ![c] = "idle"]
       ELSE /\ iter' = [iter EXCEPT ![c].curIndex = @ + 1]
            /\ lpc' = [lpc EXCEPT ![c] = "callLink"]
            /\ UNCHANGED scan
    /\ UNCHANGED <<otherL, lreq, escan, lconfig, links, linkURLIndex,
                   storeEdges, linkEdgeMap, mu, crashed, now, uuids, upd,
                   lcall, llog>>

\* linkIterator.Link up to its call of Unlock.
LinkRLock(c) ==
    /\ c \in StoreClients
    /\ lpc[c] = "callLink"
    /\ CanRLock
    /\ mu' = RLock
    /\ lpc' = [lpc EXCEPT ![c] = "link"]
    /\ UNCHANGED <<otherL, lreq, escan, lconfig, links, linkURLIndex,
                   storeEdges, linkEdgeMap, crashed, now, uuids, iter, scan,
                   upd, lcall, llog>>

\* linkIterator.Link from its call of Unlock: the copy of the current link
\* is returned and the scan notes its ID, or the program stops.
LinkUnlock(c) ==
    /\ c \in StoreClients
    /\ lpc[c] = "link"
    /\ ~crashed
    /\ crashed' = Released.fatal
    /\ mu' = Released.mu
    /\ scan' = IF Released.fatal THEN scan
               ELSE [scan EXCEPT ![c].seen =
                        Append(@, iter[c].links[iter[c].curIndex])]
    /\ lpc' = [lpc EXCEPT ![c] = "next"]
    /\ UNCHANGED <<otherL, lreq, escan, lconfig, links, linkURLIndex,
                   storeEdges, linkEdgeMap, now, uuids, iter, upd, lcall,
                   llog>>

(***************************************************************************)
(* Edges and the edgeIterator it returns.                                  *)
(***************************************************************************)
\* The upper extents a client gives to Edges; the lower one is uuid.Nil.
EdgeScanTos == {4, 8, MaxUUID}

\* Edges up to its loop: the read lock is taken; the range over the map
\* will visit the links in some order.
EdgesRLock(c, fromID, toID, updatedBefore) ==
    /\ c \in StoreClients
    /\ "Edges" \in lconfig.ops
    /\ lpc[c] = "idle"
    /\ escan[c].state = "none"
    /\ updatedBefore \in {now, MaxTime + 1}
    /\ CanRLock
    /\ mu' = RLock
    /\ \E order \in Orders(DOMAIN links) :
           escan' = [escan EXCEPT ![c] =
                        [NoEdgeScan EXCEPT
                            !.state = "running", !.order = order,
                            !.from = fromID, !.to = toID,
                            !.updatedBefore = updatedBefore]]
    /\ lpc' = [lpc EXCEPT ![c] = "edges"]
    /\ UNCHANGED <<otherL, lreq, lconfig, links, linkURLIndex, storeEdges,
                   linkEdgeMap, crashed, now, uuids, iter, scan, upd, lcall,
                   llog>>

\* The test Edges makes on the ID of a link: id < from || id >= to.
OutOfRange(id, fromID, toID) ==
    \/ StringLess(String(id), String(fromID))
    \/ ~StringLess(String(id), String(toID))

\* The edges of the list of a link that Edges collects.
EdgesBefore(es, list, updatedBefore) ==
    SelectSeq(list, LAMBDA e : Before(es[e].UpdatedAt, updatedBefore))

\* Where Edges calls RUnlock: at the end of the body of its loop over the
\* links.
RUnlocksInLoop == TRUE

\* One pass of the loop of Edges over the links: a link out of the range is
\* skipped; the edges of a link in the range are collected and RUnlock is
\* called.
EdgesRange(c) ==
    /\ c \in StoreClients
    /\ lpc[c] = "edges"
    /\ ~crashed
    /\ escan[c].i < Len(escan[c].order)
    /\ LET linkID == escan[c].order[escan[c].i + 1]
       IN  IF OutOfRange(linkID, escan[c].from, escan[c].to)
           THEN /\ escan' = [escan EXCEPT ![c].i = @ + 1]
                /\ UNCHANGED <<mu, crashed>>
           ELSE /\ escan' = [escan EXCEPT
                       ![c].i = @ + 1,
                       ![c].edges = @ \o EdgesBefore(storeEdges,
                                                     linkEdgeMap[linkID],
                                                     escan[c].updatedBefore)]
                /\ IF RUnlocksInLoop
                   THEN crashed' = RReleased.fatal /\ mu' = RReleased.mu
                   ELSE UNCHANGED <<mu, crashed>>
    /\ UNCHANGED <<otherL, lreq, lconfig, links, linkURLIndex, storeEdges,
                   linkEdgeMap, now, uuids, lpc, iter, scan, upd, lcall, llog>>

\* Edges returns the edgeIterator of the edges collected.
EdgesReturn(c) ==
    /\ c \in StoreClients
    /\ lpc[c] = "edges"
    /\ ~crashed
    /\ escan[c].i = Len(escan[c].order)
    /\ IF RUnlocksInLoop
       THEN UNCHANGED <<mu, crashed>>
       ELSE crashed' = RReleased.fatal /\ mu' = RReleased.mu
    /\ lpc' = [lpc EXCEPT ![c] = "edgeNext"]
    /\ UNCHANGED <<otherL, lreq, lconfig, links, linkURLIndex, storeEdges,
                   linkEdgeMap, now, uuids, iter, scan, escan, upd, lcall,
                   llog>>

\* Next of edgeIterator has a value receiver: e.curIndex++ changes the copy
\* of the iterator the call was given.
NextAdvances == FALSE

\* edgeIterator.Next; when it returns false the consumer is done.
EdgeIteratorNext(c) ==
    /\ c \in StoreClients
    /\ lpc[c] = "edgeNext"
    /\ ~crashed
    /\ IF escan[c].curIndex >= Len(escan[c].edges)
       THEN /\ escan' = [escan EXCEPT ![c].state = "done"]
            /\ lpc' = [lpc EXCEPT ![c] = "idle"]
       ELSE /\ escan' = [escan EXCEPT
                   ![c].curIndex = IF NextAdvances THEN @ + 1 ELSE @,
                   ![c].trues = @ + 1]
            /\ lpc' = [lpc EXCEPT ![c] = "callEdge"]
    /\ UNCHANGED <<otherL, lreq, lconfig, links, linkURLIndex, storeEdges,
                   linkEdgeMap, mu, crashed, now, uuids, iter, scan, upd,
                   lcall, llog>>

\* edgeIterator.Edge: the read lock is taken, the edge at curIndex - 1 is
\* copied (an index out of the list is a panic, with the lock held) and
\* Unlock is called; the consumer notes the ID of the edge.
EdgeIteratorEdge(c) ==
    /\ c \in StoreClients
    /\ lpc[c] = "callEdge"
    /\ CanRLock
    /\ IF escan[c].curIndex - 1 \notin 0..(Len(escan[c].edges) - 1)
       THEN /\ mu' = RLock
            /\ crashed' = TRUE
            /\ UNCHANGED escan
       ELSE /\ crashed' = ReleasedFrom(RLock).fatal
            /\ mu' = ReleasedFrom(RLock).mu
            /\ escan' = IF ReleasedFrom(RLock).fatal THEN escan
                        ELSE [escan EXCEPT ![c].seen =
                                 Append(@, escan[c].edges[escan[c].curIndex])]
    /\ lpc' = [lpc EXCEPT ![c] = "edgeNext"]
    /\ UNCHANGED <<otherL, lreq, lconfig, links, linkURLIndex, storeEdges,
                   linkEdgeMap, now, uuids, iter, scan, upd, lcall, llog>>

(***************************************************************************)
(* graphUpdater.Process.  The stage makes its store calls one after the    *)
(* other; the clients make theirs before the payload is processed.         *)
(***************************************************************************)
\* The write lock is free for a call of the graph updater.
UpdaterCalls(pos) ==
    /\ upd.pc = pos
    /\ CanLock
    /\ mu.readers = 0

\* Process begins: src is built with the time of the call.
GraphUpdaterProcess(payload) ==
    /\ upd.pc = "idle"
    /\ ~crashed
    /\ payload \in lconfig.payloads
    /\ upd' = [NoUpdate EXCEPT
           !.pc = "src", !.payload = payload,
           !.src = Link(payload.LinkID, payload.URL, now),
           !.had = DOMAIN storeEdges]
    /\ UNCHANGED <<otherL, lreq, escan, lconfig, links, linkURLIndex,
                   storeEdges, linkEdgeMap, mu, crashed, now, uuids, lpc, iter,
                   scan, lcall, llog>>

\* gu.updater.UpsertLink(src).
UpsertSource ==
    /\ UpdaterCalls("src")
    /\ Draws(links, IsNewLink(upd.src))
    /\ LET r == UpsertLinkIn(links, linkURLIndex, upd.src,
                             Drawn(links, IsNewLink(upd.src)))
       IN  /\ links' = r.links
           /\ linkURLIndex' = r.index
           /\ upd' = [upd EXCEPT !.pc = "nofollow", !.src = r.link,
                                 !.i = 1]
           /\ llog' = Submitted(llog, upd.src, r.link.ID)
    /\ UNCHANGED <<otherL, lreq, escan, lconfig, storeEdges, linkEdgeMap, mu,
                   crashed, now, lpc, iter, scan, lcall>>

\* One turn of the loop over payload.NoFollowLinks.
UpsertNoFollow ==
    /\ UpdaterCalls("nofollow")
    /\ upd.i <= Len(upd.payload.NoFollowLinks)
    /\ LET dst == Link(NilUUID, upd.payload.NoFollowLinks[upd.i], 0)
           r == UpsertLinkIn(links, linkURLIndex, dst,
                             Drawn(links, IsNewLink(dst)))
       IN  /\ Draws(links, IsNewLink(dst))
           /\ links' = r.links
           /\ linkURLIndex' = r.index
           /\ upd' = [upd EXCEPT !.i = @ + 1, !.dst = r.link]
           /\ llog' = Submitted(llog, dst, r.link.ID)
    /\ UNCHANGED <<otherL, lreq, escan, lconfig, storeEdges, linkEdgeMap, mu,
                   crashed, now, lpc, iter, scan, lcall>>

\* removeEdgesOlderThan := time.Now(), after the loop over the no-follow
\* links; the edges the source has at this moment are noted.
LoopBegins ==
    /\ upd.pc = "nofollow"
    /\ ~crashed
    /\ upd.i > Len(upd.payload.NoFollowLinks)
    /\ upd' = [upd EXCEPT
           !.pc = "follow", !.i = 1, !.removeEdgesOlderThan = now,
           !.before = { e \in DOMAIN storeEdges :
                           storeEdges[e].Src = upd.src.ID }]
    /\ UNCHANGED <<otherL, lreq, escan, lconfig, links, linkURLIndex,
                   storeEdges, linkEdgeMap, mu, crashed, now, uuids, lpc, iter,
                   scan, lcall, llog>>

\* The link the loop over payload.Links upserts for a destination.
UpsertedInLoop == "src"

\* One turn of the loop over payload.Links, up to its UpsertEdge call.
UpsertFollow ==
    /\ UpdaterCalls("follow")
    /\ upd.i <= Len(upd.payload.Links)
    /\ LET dst == Link(NilUUID, upd.payload.Links[upd.i], 0)
           upserted == IF UpsertedInLoop = "src" THEN upd.src ELSE dst
           r == UpsertLinkIn(links, linkURLIndex, upserted,
                             Drawn(links, IsNewLink(upserted)))
       IN  /\ Draws(links, IsNewLink(upserted))
           /\ links' = r.links
           /\ linkURLIndex' = r.index
           /\ upd' = [upd EXCEPT
                  !.pc = "edge",
                  !.src = IF UpsertedInLoop = "src" THEN r.link ELSE @,
                  !.dst = IF UpsertedInLoop = "src" THEN dst ELSE r.link]
           /\ llog' = Submitted(llog, upserted, r.link.ID)
    /\ UNCHANGED <<otherL, lreq, escan, lconfig, storeEdges, linkEdgeMap, mu,
                   crashed, now, lpc, iter, scan, lcall>>

\* gu.updater.UpsertEdge(&graph.Edge{Src: src.ID, Dst: dst.ID}); an error
\* ends Process.
UpsertFollowEdge ==
    /\ UpdaterCalls("edge")
    /\ LET edge == Edge(NilUUID, upd.src.ID, upd.dst.ID, 0)
           r == UpsertEdgeIn(links, storeEdges, linkEdgeMap, edge,
                             Drawn(storeEdges, IsNewEdge(edge)), now)
       IN  /\ Draws(storeEdges, IsNewEdge(edge))
           /\ storeEdges' = r.edges
           /\ linkEdgeMap' = r.lists
           /\ upd' = IF r.err # LNil
                     THEN [upd EXCEPT !.pc = "returned", !.err = r.err]
                     ELSE [upd EXCEPT !.pc = "follow", !.i = @ + 1,
                                      !.refreshed = @ \cup {r.edge.ID}]
           /\ llog' = [llog EXCEPT
                  !.upserted = IF r.err = LNil
                               THEN @ \cup {<<edge.Src, edge.Dst>>} ELSE @]
    /\ UNCHANGED <<otherL, lreq, escan, lconfig, links, linkURLIndex, mu,
                   crashed, now, lpc, iter, scan, lcall>>

\* gu.updater.RemoveStaleEdges(src.ID, removeEdgesOlderThan), and the
\* return of Process.
DropStaleEdges ==
    /\ UpdaterCalls("follow")
    /\ upd.i > Len(upd.payload.Links)
    /\ LET r == RemoveStaleEdgesIn(storeEdges, linkEdgeMap, upd.src.ID,
                                   upd.removeEdgesOlderThan)
       IN  /\ storeEdges' = r.edges
           /\ linkEdgeMap' = r.lists
    /\ upd' = [upd EXCEPT !.pc = "returned", !.err = LNil]
    /\ llog' = [llog EXCEPT !.removals = @ + 1]
    /\ UNCHANGED <<otherL, lreq, escan, lconfig, links, linkURLIndex, mu,
                   crashed, now, uuids, lpc, iter, scan, lcall>>

(***************************************************************************)
(* Next-state relation of the store.                                       *)
(***************************************************************************)
StoreClientIds == 1..MaxStoreClients

\* The UUIDs a client can pass to a call.
AnyIDs == V4UUIDs \cup {NilUUID}

\* The steps the clients and the clock choose to take.
StoreEnvNext ==
    \/ ClockTick
    \/ \E c \in StoreClientIds, url \in URLs, t \in Times :
           UpsertLink(c, url, t)
    \/ \E c \in StoreClientIds, src, dst \in AnyIDs : UpsertEdge(c, src, dst)
    \/ \E c \in StoreClientIds, from \in AnyIDs, t \in 0..(MaxTime + 1) :
           RemoveStaleEdges(c, from, t)
    \/ \E c \in StoreClientIds, n \in 1..MaxPartitions :
           IteratePartitionedLinks(c, n)
    \/ \E payload \in PagePayloads : GraphUpdaterProcess(payload)
    \/ \E c \in StoreClientIds, to \in EdgeScanTos, t \in 1..(MaxTime + 1) :
           EdgesRLock(c, NilUUID, to, t)
    \/ \E c \in StoreClientIds, id \in AnyIDs : FindLinkRLock(c, id)

\* The steps of the calls in progress.
StoreSystemNext ==
    \/ \E c \in StoreClientIds : LockReturns(c)
    \/ \E c \in StoreClientIds : FindLinkReturn(c)
    \/ \E c \in StoreClientIds : PartitionedLinkIterator(c)
    \/ \E c \in StoreClientIds : LinksRLock(c)
    \/ \E c \in StoreClientIds : LinksUnlock(c)
    \/ \E c \in StoreClientIds : IteratorNext(c)
    \/ \E c \in StoreClientIds : LinkRLock(c)
    \/ \E c \in StoreClientIds : LinkUnlock(c)
    \/ \E c \in StoreClientIds : EdgesRange(c)
    \/ \E c \in StoreClientIds : EdgesReturn(c)
    \/ \E c \in StoreClientIds : EdgeIteratorNext(c)
    \/ \E c \in StoreClientIds : EdgeIteratorEdge(c)
    \/ UpsertSource
    \/ UpsertNoFollow
    \/ LoopBegins
    \/ UpsertFollow
    \/ UpsertFollowEdge
    \/ DropStaleEdges

StoreNext == StoreEnvNext \/ StoreSystemNext

(***************************************************************************)
(* Part 4: the service loops (Service.Run of the crawler service and of    *)
(* the PageRank service).  Each service is a goroutine; the clock, the     *)
(* partition detector, the caller's context and the collaborators of a     *)
(* pass are the environment.                                               *)
(***************************************************************************)
\* Service.Name() of the two services.
CrawlerService == "crawler"

PageRankService == "PageRank calculator"

Services == {CrawlerService, PageRankService}

\* partition.ErrPartitionDataAvailableYet, any other error of a detector,
\* the error of a failed pass, ctx.Err() and nil.
ErrPartitionDataAvailableYet == "no partition data available yet"

ErrDetector == "partition detector: unable to detect host name"

ErrPass == "pass failed"

ErrCtxCanceled == "context canceled"

SNil == "nil"

\* What Run has returned: nothing yet.
Running == "running"

\* An answer of Detector.PartitionInfo.
PartitionInfo(partition, numPartitions, err) ==
    [partition |-> partition, numPartitions |-> numPartitions, err |-> err]

NoPartitionInfo == PartitionInfo(-1, -1, SNil)

\* The answers a detector can give: a partition of a cluster of two nodes,
\* or an error with the values FromSRVRecords returns beside it.
PartitionInfos ==
    { PartitionInfo(p, 2, SNil) : p \in 0..1 }
    \cup { PartitionInfo(-1, -1, e) :
             e \in {ErrPartitionDataAvailableYet, ErrDetector} }

\* A service scenario: the services started, the intervals that elapse and
\* the calls of the collaborators that fail.
ServiceConfig(services, intervals, faults, group) ==
    [services |-> services, intervals |-> intervals, faults |-> faults,
     group |-> group]

NoServiceConfig == ServiceConfig({}, 0, 0, FALSE)

\* The services are run one by one by their caller, or together by
\* Group.Run.
ServiceConfigs ==
    { ServiceConfig(services, MaxIntervals, faults, group) :
        services \in (SUBSET Services) \ {{}}, faults \in 0..MaxPassFaults,
        group \in BOOLEAN }

\* Group.Run before it is called (pc "none": there is no group).
NoGroup(group) ==
    [pc |-> IF group THEN "idle" ELSE "none", ctxDone |-> FALSE,
     errCh |-> <<>>, exited |-> {}, err |-> <<>>]

NoPasses == [polls |-> 0, deferred |-> 0, started |-> 0, completed |-> 0]

ServiceInit(configs) ==
    /\ sconfig \in configs
    /\ spc = [s \in sconfig.services |-> "idle"]
    /\ sctx = FALSE
    /\ sinfo = [s \in sconfig.services |-> NoPartitionInfo]
    /\ sresult = [s \in sconfig.services |-> Running]
    /\ sbudget = [intervals |-> sconfig.intervals, faults |-> sconfig.faults,
                  steps |-> MaxPassSteps]
    /\ slog = [s \in sconfig.services |-> NoPasses]
    /\ grp = NoGroup(sconfig.group)

\* The caller cancels the context: the ctx given to Run of a service, or
\* the ctx given to Group.Run, of which the run context is a child.
ServiceCancel ==
    /\ sconfig.services # {}
    /\ ~grp.ctxDone
    /\ grp.pc # "returned"
    /\ sctx' = TRUE
    /\ grp' = [grp EXCEPT !.ctxDone = TRUE]
    /\ UNCHANGED <<otherS, sconfig, spc, sinfo, sresult, sbudget, slog>>

\* Run is called by the caller of a service that is not in a group.
ServiceRun(s) ==
    /\ s \in sconfig.services
    /\ spc[s] = "idle"
    /\ grp.pc = "none"
    /\ spc' = [spc EXCEPT ![s] = "select"]
    /\ UNCHANGED <<otherS, sconfig, grp, sctx, sinfo, sresult, sbudget, slog>>

\* Run returns err.
ServiceReturns(s, err) ==
    /\ spc' = [spc EXCEPT ![s] = "returned"]
    /\ sresult' = [sresult EXCEPT ![s] = err]

\* case <-ctx.Done(): return nil.
CtxDone(s) ==
    /\ s \in sconfig.services
    /\ spc[s] = "select"
    /\ sctx
    /\ ServiceReturns(s, SNil)
    /\ UNCHANGED <<otherS, sconfig, grp, sctx, sinfo, sbudget, slog>>

\* errors.Is(err, partition.ErrPartitionDataAvailableYet).
IsNotAvailableYet_Never(err) == FALSE

IsNotAvailableYet(err) == err = ErrPartitionDataAvailableYet

\* curPartition != 0 of the PageRank service: the node is not the leader.
NotLeader_Never(curPartition) == FALSE

NotLeader(curPartition) == curPartition # 0

\* case <-svc.cfg.Clock.After(svc.cfg.UpdateInterval): the interval elapses,
\* the detector answers info, and Run defers the pass, returns or begins
\* the pass.
IntervalElapsed(s, info) ==
    /\ s \in sconfig.services
    /\ spc[s] = "select"
    /\ sbudget.intervals > 0
    /\ info \in PartitionInfos
    /\ sbudget' = [sbudget EXCEPT !.intervals = @ - 1]
    /\ sinfo' = [sinfo EXCEPT ![s] = info]
    /\ IF info.err # SNil
       THEN IF IsNotAvailableYet(info.err)
            THEN /\ slog' = [slog EXCEPT ![s].polls = @ + 1,
                                         ![s].deferred = @ + 1]
                 /\ UNCHANGED <<spc, sresult>>
            ELSE /\ ServiceReturns(s, info.err)
                 /\ slog' = [slog EXCEPT ![s].polls = @ + 1]
       ELSE IF s = PageRankService /\ NotLeader(info.partition)
            THEN /\ ServiceReturns(s, SNil)
                 /\ slog' = [slog EXCEPT ![s].polls = @ + 1]
            ELSE /\ spc' = [spc EXCEPT ![s] =
                               IF s = PageRankService THEN "reset"
                               ELSE "crawl"]
                 /\ slog' = [slog EXCEPT ![s].polls = @ + 1,
                                         ![s].started = @ + 1]
                 /\ UNCHANGED sresult
    /\ UNCHANGED <<otherS, sconfig, grp, sctx>>

\* The errors a call of a collaborator can return: nil, or a failure while
\* failures are left.
PassErrs == {SNil, ErrPass}

\* A step of a pass returns err; an error ends Run, nil leads to position
\* next.
PassStep(s, pos, err, next) ==
    /\ s \in sconfig.services
    /\ spc[s] = pos
    /\ err # SNil => sbudget.faults > 0
    /\ sbudget' = [sbudget EXCEPT !.faults = IF err # SNil THEN @ - 1 ELSE @]
    /\ IF err # SNil
       THEN ServiceReturns(s, err) /\ UNCHANGED slog
       ELSE /\ spc' = [spc EXCEPT ![s] = next]
            /\ slog' = [slog EXCEPT ![s].completed =
                           IF next = "select" THEN @ + 1 ELSE @]
            /\ UNCHANGED sresult
    /\ UNCHANGED <<otherS, sconfig, grp, sctx, sinfo>>

\* crawlGraph: the extents of the partition, Links, Crawl and Close.
CrawlGraph(err) == PassStep(CrawlerService, "crawl", err, "select")

\* updateGraphScores: Graph().Reset().
PassReset(err) == PassStep(PageRankService, "reset", err, "load")

\* updateGraphScores: loadLinks and loadEdges.
PassLoad(err) == PassStep(PageRankService, "load", err, "run")

\* updateGraphScores: Executor().RunToCompletion(ctx), at the top of an
\* iteration of Executor.run: ensureContextNotExpired(ctx) returns the
\* error of a context it finds expired, and the run ends with it.
PassRun ==
    /\ PageRankService \in sconfig.services
    /\ spc[PageRankService] = "run"
    /\ IF sctx
       THEN ServiceReturns(PageRankService, ErrCtxCanceled)
       ELSE /\ spc' = [spc EXCEPT ![PageRankService] = "step"]
            /\ UNCHANGED sresult
    /\ UNCHANGED <<otherS, sconfig, grp, sctx, sinfo, sbudget, slog>>

\* The rest of the iteration, in which the context is not read again:
\* PreStep, step, PostStep and PostStepKeepRunning.  An error ends the run
\* and Run; with keepRunning the executor begins the next iteration, and
\* without it RunToCompletion returns nil.
PassSuperstep(err, keepRunning) ==
    /\ PageRankService \in sconfig.services
    /\ spc[PageRankService] = "step"
    /\ err # SNil => sbudget.faults > 0
    /\ err = SNil /\ keepRunning => sbudget.steps > 0
    /\ sbudget' =
          [sbudget EXCEPT
              !.faults = IF err # SNil THEN @ - 1 ELSE @,
              !.steps = IF err = SNil /\ keepRunning THEN @ - 1 ELSE @]
    /\ IF err # SNil
       THEN ServiceReturns(PageRankService, err)
       ELSE /\ spc' = [spc EXCEPT ![PageRankService] =
                          IF keepRunning THEN "run" ELSE "persist"]
            /\ UNCHANGED sresult
    /\ UNCHANGED <<otherS, sconfig, grp, sctx, sinfo, slog>>

\* updateGraphScores: calculator.Scores(svc.persistScore).
PassPersist(err) == PassStep(PageRankService, "persist", err, "select")

\* xerrors.Errorf("%s : %w", s.Name(), err).
Errorf(name, err) == name \o " : " \o err

\* Group.Run up to its wait: runCtx is a child of ctx, errCh has room for
\* one error of each service, and each service is given a goroutine that
\* calls its Run with runCtx.
GroupRun ==
    /\ grp.pc = "idle"
    /\ grp' = [grp EXCEPT !.pc = "waitCtx"]
    /\ spc' = [s \in sconfig.services |-> "select"]
    /\ UNCHANGED <<otherS, sconfig, sctx, sinfo, sresult, sbudget, slog>>

\* The goroutine of the service s after s.Run(runCtx) returned: an error is
\* sent to errCh under the name of the service and the run context is
\* cancelled; wg.Done is deferred.
GroupServiceExits(s) ==
    /\ s \in sconfig.services
    /\ grp.pc \in {"waitCtx", "waitWg"}
    /\ spc[s] = "returned"
    /\ s \notin grp.exited
    /\ IF sresult[s] # SNil
       THEN /\ grp' = [grp EXCEPT
                          !.errCh = Append(@, Errorf(s, sresult[s])),
                          !.exited = @ \cup {s}]
            /\ sctx' = TRUE
       ELSE /\ grp' = [grp EXCEPT !.exited = @ \cup {s}]
            /\ UNCHANGED sctx
    /\ UNCHANGED <<otherS, sconfig, spc, sinfo, sresult, sbudget, slog>>

\* The channel Group.Run waits on before wg.Wait(): ctx.Done() of the
\* context of its caller.
GroupDone == grp.ctxDone

\* <-ctx.Done() of Group.Run.
GroupCtxDone ==
    /\ grp.pc = "waitCtx"
    /\ GroupDone
    /\ grp' = [grp EXCEPT !.pc = "waitWg"]
    /\ UNCHANGED <<otherS, sconfig, sctx, spc, sinfo, sresult, sbudget,
                   slog>>

\* wg.Wait() of Group.Run returns; errCh is closed and its errors are
\* appended to the multierror Run returns; the deferred cancelFn runs.
GroupReturns ==
    /\ grp.pc = "waitWg"
    /\ grp.exited = sconfig.services
    /\ grp' = [grp EXCEPT !.pc = "returned", !.err = grp.errCh,
                          !.errCh = <<>>]
    /\ sctx' = TRUE
    /\ UNCHANGED <<otherS, sconfig, spc, sinfo, sresult, sbudget, slog>>

ServiceEnvNext ==
    \/ ServiceCancel
    \/ \E s \in Services : ServiceRun(s)
    \/ GroupRun

ServiceSystemNext ==
    \/ \E s \in Services : GroupServiceExits(s)
    \/ GroupCtxDone
    \/ GroupReturns
    \/ \E s \in Services : CtxDone(s)
    \/ \E s \in Services, info \in PartitionInfos : IntervalElapsed(s, info)
    \/ \E err \in PassErrs : CrawlGraph(err)
    \/ \E err \in PassErrs : PassReset(err)
    \/ \E err \in PassErrs : PassLoad(err)
    \/ PassRun
    \/ \E err \in PassErrs, keepRunning \in BOOLEAN :
          PassSuperstep(err, keepRunning)
    \/ \E err \in PassErrs : PassPersist(err)

ServiceNext == ServiceEnvNext \/ ServiceSystemNext

(***************************************************************************)
(* Part 5: the Float64Accumulator (package aggregator).  The two sums are  *)
(* words of memory that hold the bits of a float64; every atomic load and  *)
(* compare-and-swap of Aggregate and Set is a step of the calling          *)
(* goroutine.  The values are integers small enough for float64 addition   *)
(* to be exact.                                                            *)
(***************************************************************************)
\* The width of the exponent of a float64 and its bias.
ExponentBits == 11

ExponentBias == 1023

RECURSIVE Pow2(_)
Pow2(n) == IF n = 0 THEN 1 ELSE 2 * Pow2(n - 1)

\* The exponent of the leading bit of m > 0.
RECURSIVE ILog2(_)
ILog2(m) == IF m < 2 THEN 0 ELSE 1 + ILog2(m \div 2)

\* math.Float64bits of the integer v: sign, biased exponent and fraction.
Float64bits(v) ==
    IF v = 0 THEN 0
    ELSE LET m == IF v < 0 THEN -v ELSE v
             e == ILog2(m)
             fraction == (m - Pow2(e)) * Pow2(FractionBits - e)
             sign == IF v < 0 THEN 1 ELSE 0
         IN  sign * Pow2(ExponentBits + FractionBits)
                 + (e + ExponentBias) * Pow2(FractionBits)
                 + fraction

\* math.Float64frombits.
Float64frombits(b) ==
    LET sign == b \div Pow2(ExponentBits + FractionBits)
        rest == b % Pow2(ExponentBits + FractionBits)
        e == (rest \div Pow2(FractionBits)) - ExponentBias
        fraction == rest % Pow2(FractionBits)
        m == Pow2(e) + (fraction \div Pow2(FractionBits - e))
    IN  IF rest = 0 THEN 0 ELSE IF sign = 1 THEN -m ELSE m

\* loadFloat64 of a word that holds bits.
LoadFloat64(bits) == Float64frombits(bits)

\* atomic.CompareAndSwapUint64 on a word that holds bits: whether it
\* swapped, and what the word holds afterwards.
CompareAndSwapUint64_Store(bits, old, new) == [swapped |-> TRUE, val |-> new]

CompareAndSwapUint64(bits, old, new) ==
    IF bits = old THEN [swapped |-> TRUE, val |-> new]
    ELSE [swapped |-> FALSE, val |-> bits]

\* Float64Accumulator.Get.
Get == LoadFloat64(curSum)

\* The values given to Aggregate and to Set.
AccValues == {-1, 0, 1, 2}

AccWorkers == 1..MaxAccWorkers

\* An accumulator scenario: the goroutines, the methods they call and the
\* number of calls they make together.
AccConfig(workers, ops, calls) ==
    [workers |-> workers, ops |-> ops, calls |-> calls]

NoAccConfig == AccConfig(0, {}, 0)

AccConfigs ==
    { AccConfig(workers, ops, MaxAccCalls) :
        workers \in AccWorkers,
        ops \in {{"Aggregate"}, {"Set"}, {"Aggregate", "Set"}} }

NoAccCall ==
    [op |-> "none", v |-> 0, oldV |-> 0, oldCur |-> 0, oldPrev |-> 0,
     swappedCur |-> FALSE]

\* new(Float64Accumulator): both sums are 0.
AccInit(configs) ==
    /\ aconfig \in configs
    /\ curSum = Float64bits(0)
    /\ prevSum = Float64bits(0)
    /\ apc = [w \in 1..aconfig.workers |-> "idle"]
    /\ acall = [w \in 1..aconfig.workers |-> NoAccCall]
    /\ alog = [calls |-> 0, sum |-> 0, sets |-> 0, returned |-> 0,
               retries |-> 0]

\* The goroutine w calls the method op with the value v.
AccCalls(w, op, v) ==
    /\ w \in 1..aconfig.workers
    /\ op \in aconfig.ops
    /\ apc[w] = "idle"
    /\ alog.calls < aconfig.calls
    /\ acall' = [acall EXCEPT ![w] = [NoAccCall EXCEPT !.op = op, !.v = v]]

\* Aggregate(v) is called.
AggregateCall(w, v) ==
    /\ AccCalls(w, "Aggregate", v)
    /\ apc' = [apc EXCEPT ![w] = "oldV"]
    /\ alog' = [alog EXCEPT !.calls = @ + 1, !.sum = @ + v]
    /\ UNCHANGED <<otherA, aconfig, curSum, prevSum>>

\* Aggregate: oldV := loadFloat64(&a.curSum).
AggregateLoad(w) ==
    /\ w \in 1..aconfig.workers
    /\ apc[w] = "oldV"
    /\ acall' = [acall EXCEPT ![w].oldV = LoadFloat64(curSum)]
    /\ apc' = [apc EXCEPT ![w] = "newV"]
    /\ UNCHANGED <<otherA, aconfig, curSum, prevSum, alog>>

\* Aggregate: newV := oldV + v64 and the compare-and-swap of curSum;
\* Aggregate returns if it swapped and loads again if not.
AggregateSwap(w) ==
    /\ w \in 1..aconfig.workers
    /\ apc[w] = "newV"
    /\ LET oldV == acall[w].oldV
           newV == oldV + acall[w].v
           cas == CompareAndSwapUint64(curSum, Float64bits(oldV),
                                       Float64bits(newV))
       IN  /\ curSum' = cas.val
           /\ IF cas.swapped
              THEN /\ apc' = [apc EXCEPT ![w] = "idle"]
                   /\ alog' = [alog EXCEPT !.returned = @ + 1]
              ELSE /\ apc' = [apc EXCEPT ![w] = "oldV"]
                   /\ alog' = [alog EXCEPT !.retries = @ + 1]
    /\ UNCHANGED <<otherA, aconfig, prevSum, acall>>

\* Set(v) is called.
SetCall(w, v) ==
    /\ AccCalls(w, "Set", v)
    /\ apc' = [apc EXCEPT ![w] = "oldCur"]
    /\ alog' = [alog EXCEPT !.calls = @ + 1, !.sets = @ + 1]
    /\ UNCHANGED <<otherA, aconfig, curSum, prevSum>>

\* Set: oldCur := loadFloat64(&a.curSum).
SetLoadCur(w) ==
    /\ w \in 1..aconfig.workers
    /\ apc[w] = "oldCur"
    /\ acall' = [acall EXCEPT ![w].oldCur = LoadFloat64(curSum)]
    /\ apc' = [apc EXCEPT ![w] = "oldPrev"]
    /\ UNCHANGED <<otherA, aconfig, curSum, prevSum, alog>>

\* Set: oldPrev := loadFloat64(&a.prevSum).
SetLoadPrev(w) ==
    /\ w \in 1..aconfig.workers
    /\ apc[w] = "oldPrev"
    /\ acall' = [acall EXCEPT ![w].oldPrev = LoadFloat64(prevSum)]
    /\ apc' = [apc EXCEPT ![w] = "swappedCur"]
    /\ UNCHANGED <<otherA, aconfig, curSum, prevSum, alog>>

\* Set: the compare-and-swap of curSum from oldCur to v64.
SetSwapCur(w) ==
    /\ w \in 1..aconfig.workers
    /\ apc[w] = "swappedCur"
    /\ LET cas == CompareAndSwapUint64(curSum, Float64bits(acall[w].oldCur),
                                       Float64bits(acall[w].v))
       IN  /\ curSum' = cas.val
           /\ acall' = [acall EXCEPT ![w].swappedCur = cas.swapped]
    /\ apc' = [apc EXCEPT ![w] = "swappedPrev"]
    /\ UNCHANGED <<otherA, aconfig, prevSum, alog>>

\* The word the second compare-and-swap of Set addresses: &a.curSum.
SwappedPrevWord == "curSum"

\* Set: the compare-and-swap from oldPrev to v64; Set returns if both
\* swapped and starts again if not.
SetSwapPrev(w) ==
    /\ w \in 1..aconfig.workers
    /\ apc[w] = "swappedPrev"
    /\ LET word == IF SwappedPrevWord = "curSum" THEN curSum ELSE prevSum
           cas == CompareAndSwapUint64(word, Float64bits(acall[w].oldPrev),
                                       Float64bits(acall[w].v))
       IN  /\ IF SwappedPrevWord = "curSum"
              THEN curSum' = cas.val /\ UNCHANGED prevSum
              ELSE prevSum' = cas.val /\ UNCHANGED curSum
           /\ IF acall[w].swappedCur /\ cas.swapped
              THEN /\ apc' = [apc EXCEPT ![w] = "idle"]
                   /\ alog' = [alog EXCEPT !.returned = @ + 1]
              ELSE /\ apc' = [apc EXCEPT ![w] = "oldCur"]
                   /\ UNCHANGED alog
    /\ UNCHANGED <<otherA, aconfig, acall>>

AccEnvNext ==
    \/ \E w \in AccWorkers, v \in AccValues : AggregateCall(w, v)
    \/ \E w \in AccWorkers, v \in AccValues : SetCall(w, v)

AccSystemNext ==
    \/ \E w \in AccWorkers : AggregateLoad(w)
    \/ \E w \in AccWorkers : AggregateSwap(w)
    \/ \E w \in AccWorkers : SetLoadCur(w)
    \/ \E w \in AccWorkers : SetLoadPrev(w)
    \/ \E w \in AccWorkers : SetSwapCur(w)
    \/ \E w \in AccWorkers : SetSwapPrev(w)

AccNext == AccEnvNext \/ AccSystemNext

(***************************************************************************)
(* Part 6: the inMemoryQueue (package message) on its own.  Every method   *)
(* holds the mutex of the queue from its first statement to its last, so a *)
(* call is one step.  Producers enqueue concurrently; one consumer uses    *)
(* the iterator (the queue itself) and discards the messages.              *)
(***************************************************************************)
\* The nil Message, and the messages: the n-th Enqueue call enqueues n.
NilMessage == 0

Producers == 1..MaxProducers

\* A queue scenario: the producers and the calls made.
QueueConfig(producers, enqueues, discards) ==
    [producers |-> producers, enqueues |-> enqueues, discards |-> discards]

NoQueueConfig == QueueConfig(0, 0, 0)

QueueConfigs ==
    { QueueConfig(producers, MaxEnqueues, MaxDiscards) :
        producers \in Producers }

\* NewInMemoryQueue().
QueueInit(configs) ==
    /\ qconfig \in configs
    /\ qmsgs = NewInMemoryQueue
    /\ latchedMsg = NilMessage
    /\ qpc = "idle"
    /\ qgot = <<>>
    /\ qlog = [enqueued |-> 0, discards |-> 0, exhausted |-> 0]

\* The producer p calls Enqueue with a new message.
QueueEnqueue(p) ==
    /\ p \in 1..qconfig.producers
    /\ qlog.enqueued < qconfig.enqueues
    /\ qmsgs' = Enqueue(qmsgs, qlog.enqueued + 1)
    /\ qlog' = [qlog EXCEPT !.enqueued = @ + 1]
    /\ UNCHANGED <<otherQ, qconfig, latchedMsg, qpc, qgot>>

\* A Next that takes the message at the head of the queue.
Dequeue_Head(q, latched) ==
    IF Len(q) = 0 THEN [ok |-> FALSE, msgs |-> q, latchedMsg |-> latched]
    ELSE [ok |-> TRUE, msgs |-> Tail(q), latchedMsg |-> Head(q)]

\* inMemoryQueue.Next between Lock and Unlock: the result, msgs and
\* latchedMsg.
Dequeue(q, latched) ==
    IF Len(q) = 0 THEN [ok |-> FALSE, msgs |-> q, latchedMsg |-> latched]
    ELSE [ok |-> TRUE, msgs |-> SubSeq(q, 1, Len(q) - 1),
          latchedMsg |-> q[Len(q)]]

\* The consumer calls Next; after true it calls Message.
QueueNext ==
    /\ qconfig.producers > 0
    /\ qpc = "idle"
    /\ qlog.exhausted < 2
    /\ LET r == Dequeue(qmsgs, latchedMsg)
       IN  /\ qmsgs' = r.msgs
           /\ latchedMsg' = r.latchedMsg
           /\ qpc' = IF r.ok THEN "message" ELSE "idle"
           /\ qlog' = [qlog EXCEPT !.exhausted = IF r.ok THEN @ ELSE @ + 1]
    /\ UNCHANGED <<otherQ, qconfig, qgot>>

\* The consumer calls Message.
QueueMessage ==
    /\ qpc = "message"
    /\ qgot' = Append(qgot, latchedMsg)
    /\ qpc' = "idle"
    /\ UNCHANGED <<otherQ, qconfig, qmsgs, latchedMsg, qlog>>

\* The consumer calls DiscardMessages.
QueueDiscard ==
    /\ qpc = "idle"
    /\ qlog.discards < qconfig.discards
    /\ qmsgs' = DiscardMessages(qmsgs)
    /\ latchedMsg' = NilMessage
    /\ qlog' = [qlog EXCEPT !.discards = @ + 1]
    /\ UNCHANGED <<otherQ, qconfig, qpc, qgot>>

QueueMachineNext ==
    \/ \E p \in Producers : QueueEnqueue(p)
    \/ QueueNext
    \/ QueueMessage
    \/ QueueDiscard

\* A pipeline that is never built, for the runs of the graph engine.
NoScenario == [stages |-> <<>>, calls |-> 0, payloads |-> 0, faults |-> 0]

\* The machines a specification does not explore stay as they are built.
Init ==
    /\ PipelineInit(Scenarios)
    /\ GraphInit({NoGraphConfig})
    /\ StoreInit({NoStoreConfig})
    /\ ServiceInit({NoServiceConfig})
    /\ AccInit({NoAccConfig})
    /\ QueueInit({NoQueueConfig})

Spec == Init /\ [][Next]_vars

\* Every goroutine that can take a step is eventually scheduled; no step
\* of the model can be repeated for ever, so weak fairness of the goroutine
\* steps as a whole gives each goroutine its turn.  Callers are not obliged
\* to call Process or to cancel.
FairSpec == Spec /\ WF_vars(SystemNext)

GraphInitial ==
    /\ PipelineInit({NoScenario})
    /\ GraphInit(GraphConfigs)
    /\ StoreInit({NoStoreConfig})
    /\ ServiceInit({NoServiceConfig})
    /\ AccInit({NoAccConfig})
    /\ QueueInit({NoQueueConfig})

GraphSpec == GraphInitial /\ [][GraphNext]_vars

\* The executor loop and the compute workers keep running; the client is
\* not obliged to make its next call, nor the context to expire.
GraphFairSpec == GraphSpec /\ WF_vars(GraphSystemNext)

StoreInitial ==
    /\ PipelineInit({NoScenario})
    /\ GraphInit({NoGraphConfig})
    /\ StoreInit(StoreConfigs)
    /\ ServiceInit({NoServiceConfig})
    /\ AccInit({NoAccConfig})
    /\ QueueInit({NoQueueConfig})

StoreSpec == StoreInitial /\ [][StoreNext]_vars

ServiceInitial ==
    /\ PipelineInit({NoScenario})
    /\ GraphInit({NoGraphConfig})
    /\ StoreInit({NoStoreConfig})
    /\ ServiceInit(ServiceConfigs)
    /\ AccInit({NoAccConfig})
    /\ QueueInit({NoQueueConfig})

ServiceSpec == ServiceInitial /\ [][ServiceNext]_vars

\* The goroutines of the services and of Group.Run keep running; the
\* caller is not obliged to call Run or to cancel its context.
ServiceFairSpec == ServiceSpec /\ WF_vars(ServiceSystemNext)

AccInitial ==
    /\ PipelineInit({NoScenario})
    /\ GraphInit({NoGraphConfig})
    /\ StoreInit({NoStoreConfig})
    /\ ServiceInit({NoServiceConfig})
    /\ AccInit(AccConfigs)
    /\ QueueInit({NoQueueConfig})

AccSpec == AccInitial /\ [][AccNext]_vars

\* Every goroutine inside Aggregate or Set is eventually scheduled; nobody
\* is obliged to make a call.
AccFairSpec == AccSpec /\ WF_vars(AccSystemNext)

QueueInitial ==
    /\ PipelineInit({NoScenario})
    /\ GraphInit({NoGraphConfig})
    /\ StoreInit({NoStoreConfig})
    /\ ServiceInit({NoServiceConfig})
    /\ AccInit({NoAccConfig})
    /\ QueueInit(QueueConfigs)

QueueSpec == QueueInitial /\ [][QueueMachineNext]_vars

(***************************************************************************)
(* Vocabulary of the properties.                                           *)
(***************************************************************************)
Started(c) == pc[MainId(c)] # "idle"

\* An error-free, uncancelled run: nothing was handed to maybeEmitError and
\* the caller did not cancel.
Clean(c) == ~callerCancelled[c] /\ firstErr[c] = NoError

Elems(seq) == { seq[i] : i \in DOMAIN seq }

\* Every payload instance a run can hold.
Instances ==
    { [id |-> i, copy |-> k] :
        i \in 1..scenario.payloads, k \in 0..(CrawlerBroadcastWays - 1) }

\* Transfers on channel ch, of one payload and in all.
SentOn(ch, payload) == CopiesIn(<<ch, payload>>, sent)

CountOn(ch) ==
    BagCardinality([x \in { y \in BagToSet(sent) : y[1] = ch } |-> sent[x]])

\* Payloads stage s of call c dropped.
DropsAt(c, s) ==
    BagCardinality([x \in { y \in BagToSet(dropped) : y[1] = c /\ y[2] = s }
                       |-> dropped[x]])

WasDropped(c, payload) ==
    \E s \in StageIdx : CopiesIn(<<c, s, payload>>, dropped) > 0

MarksBy(c, payload, by) == CopiesIn(<<c, payload, by>>, marks)

MarkCount(c, payload) ==
    MarksBy(c, payload, "stage") + MarksBy(c, payload, "sink")

\* Processor calls worker p made, on one payload and in all.
HandledBy(p, payload) == CopiesIn(<<p, payload>>, handled)

HandledCount(p) ==
    BagCardinality(
        [x \in { y \in BagToSet(handled) : y[1] = p } |-> handled[x]])

\* The payloads the source of call c handed out, in order.
SourceSeq(c) == [i \in 1..emitted[c] |-> Payload(i)]

\* Every goroutine Process started for call c has exited.
WorkersExited(c) ==
    /\ pc[SourceId(c)] = "done"
    /\ pc[SinkId(c)] = "done"
    /\ \A s \in StageIdx :
          /\ pc[StageId(c, s)] = "done"
          /\ HasRun(s) => pc[RunId(c, s)] = "ret"
          /\ \A w \in FifoIdx(s) : pc[FifoId(c, s, w)] = "ret"
          /\ \A w \in DynSlots(s) : pc[DynWorkerId(c, s, w)] = "idle"

AllFifo == \A s \in StageIdx : Stage(s).kind = "fifo"

\* countingSink.getCount of the crawler: count / 2.
GetCount(count) == count \div 2

(***************************************************************************)
(* C1.  In a pipeline of FIFO stages the sink consumes payloads in source  *)
(* order: at every moment of every run the consumed payloads are in        *)
(* increasing source position, and when an error-free, uncancelled run has *)
(* returned, the consumed sequence is the source's sequence with the       *)
(* dropped payloads removed.                                               *)
(***************************************************************************)
C1_FifoOrderPreserved ==
    \A c \in Calls :
        AllFifo =>
            /\ \A i, j \in DOMAIN consumed[c] :
                  i < j => consumed[c][i].id < consumed[c][j].id
            /\ (Returned(c) /\ Clean(c)) =>
                  LET Kept(p) == ~WasDropped(c, p)
                  IN consumed[c] = SelectSeq(SourceSeq(c), Kept)

\* A two-stage FIFO run ended cleanly having consumed two payloads in order.
C1_Witness ==
    \E c \in Calls :
        /\ AllFifo /\ NumStages = 2
        /\ Returned(c) /\ Clean(c)
        /\ Len(consumed[c]) >= 2

(***************************************************************************)
(* C2.  When an error-free, uncancelled run has returned, every FIFO of a  *)
(* Broadcast stage with m sub-processors has handled each of the n inputs  *)
(* of the stage exactly once (all but FIFO 0 on a Clone), and the stage    *)
(* sent m*n payloads downstream less those its sub-processors dropped;     *)
(* when none was dropped and the stage is the last one, the sink consumed  *)
(* m*n payloads, so its count divided by m (getCount for the crawler's     *)
(* 2-way broadcast) is n.                                                  *)
(***************************************************************************)
C2_BroadcastFanOut ==
    \A c \in Calls : \A s \in StageIdx :
        (Stage(s).kind = "broadcast" /\ Returned(c) /\ Clean(c)) =>
            LET m == Stage(s).size
                n == CountOn(StageCh(c, s))
            IN /\ \A i \in FifoIdx(s) :
                    /\ HandledCount(FifoId(c, s, i)) = n
                    /\ \A p \in Instances :
                          p.copy = 0 =>
                            HandledBy(FifoId(c, s, i), FifoPayload(p, i))
                                = SentOn(StageCh(c, s), p)
               /\ CountOn(StageCh(c, s + 1)) + DropsAt(c, s) = m * n
               /\ (s = NumStages - 1 /\ DropsAt(c, s) = 0) =>
                    /\ Len(consumed[c]) = m * n
                    /\ Len(consumed[c]) \div m = n
                    /\ m = CrawlerBroadcastWays =>
                          GetCount(Len(consumed[c])) = n

\* A clean run in which two payloads reached a broadcast that dropped none.
C2_Witness ==
    \E c \in Calls : \E s \in StageIdx :
        /\ Stage(s).kind = "broadcast"
        /\ Returned(c) /\ Clean(c)
        /\ CountOn(StageCh(c, s)) = 2
        /\ DropsAt(c, s) = 0
        /\ Len(consumed[c]) = 2 * Stage(s).size

(***************************************************************************)
(* C3.  A payload a processor dropped (returned nil, nil) is never         *)
(* consumed by the sink; and when an error-free, uncancelled run has       *)
(* returned, every payload the source handed out has had MarkAsProcessed   *)
(* called exactly once: by the dropping stage if it was dropped, otherwise *)
(* by the sink worker, which consumed it.                                  *)
(***************************************************************************)
C3_DropAndMarkOnce ==
    \A c \in Calls :
        /\ \A p \in Instances :
              WasDropped(c, p) => p \notin Elems(consumed[c])
        /\ (Returned(c) /\ Clean(c)) =>
              \A i \in 1..emitted[c] :
                  LET p == Payload(i)
                  IN /\ MarkCount(c, p) = 1
                     /\ WasDropped(c, p) => MarksBy(c, p, "stage") = 1
                     /\ ~WasDropped(c, p) =>
                          /\ MarksBy(c, p, "sink") = 1
                          /\ p \in Elems(consumed[c])

\* A clean run that dropped one payload and consumed another.
C3_Witness ==
    \E c \in Calls :
        /\ Returned(c) /\ Clean(c)
        /\ \E i, j \in 1..emitted[c] :
              /\ WasDropped(c, Payload(i))
              /\ Payload(j) \in Elems(consumed[c])

(***************************************************************************)
(* C4.  Once a worker has handed an error to maybeEmitError, Process       *)
(* returns; and when it has returned, its composite error is not nil and   *)
(* contains that first error, pCtx is cancelled and every goroutine of the *)
(* call has exited.  The context is cancelled as soon as Process has       *)
(* collected an error.                                                     *)
(***************************************************************************)
C4_ErrorState(c) ==
    /\ errs[c] # <<>> => pCancelled[c]
    /\ (firstErr[c] # NoError /\ Returned(c)) =>
          /\ errs[c] # <<>>
          /\ firstErr[c] \in Elems(errs[c])
          /\ firstErr[c].origin = "stage" => firstErr[c].stage \in StageIdx
          /\ pCancelled[c]
          /\ WorkersExited(c)

C4_ErrorAbortsRun ==
    \A c \in CallIds :
        /\ [](c \in Calls => C4_ErrorState(c))
        /\ (c \in Calls /\ firstErr[c] # NoError)
              ~> (c \in Calls /\ Returned(c))

\* A run returned a composite of two errors, the first emitted one first.
C4_Witness ==
    \E c \in Calls :
        /\ Returned(c)
        /\ Len(errs[c]) >= 2
        /\ errs[c][1] = firstErr[c]
        /\ firstErr[c].cause = "fail"


(***************************************************************************)
(* C5.  Process eventually returns (the source of the model is finite and  *)
(* every processor and sink call returns); and when it has returned from   *)
(* an error-free, uncancelled run it returns nil, every payload the source *)
(* handed out has been consumed or dropped, and every goroutine of the     *)
(* call has exited.  Stated for a call that has the pipeline to itself.    *)
(***************************************************************************)
C5_CleanReturn(c) ==
    (Returned(c) /\ Clean(c)) =>
        /\ errs[c] = <<>>
        /\ \A i \in 1..emitted[c] :
              \/ WasDropped(c, Payload(i))
              \/ Payload(i) \in Elems(consumed[c])
        /\ WorkersExited(c)

C5_ProcessReturns ==
    \A c \in CallIds :
        /\ [](c \in Calls => C5_CleanReturn(c))
        /\ (c \in Calls /\ scenario.calls = 1 /\ Started(c))
              ~> (c \in Calls /\ Returned(c))

(***************************************************************************)
(* C6.  When Process has returned from a run whose caller cancelled the    *)
(* context while a payload was in flight (the source handed it out and it  *)
(* was neither dropped nor consumed), the composite error includes a       *)
(* context error.                                                          *)
(***************************************************************************)
Interrupted(c) ==
    \E i \in 1..emitted[c] :
        /\ ~WasDropped(c, Payload(i))
        /\ Payload(i) \notin Elems(consumed[c])

C6_CancelReportsCtxError ==
    \A c \in Calls :
        (Returned(c) /\ callerCancelled[c] /\ Interrupted(c)) =>
            \E e \in Elems(errs[c]) : e.cause = "ctx"

(***************************************************************************)
(* C7.  A dynamic worker pool of an error-free, uncancelled run that has   *)
(* the pipeline to itself eventually has Run returned (its input channel   *)
(* closed), having emitted or dropped every input it received (every one   *)
(* the source handed out), with its token pool full again.                 *)
(***************************************************************************)
C7_DynClean(c, s) ==
    /\ c \in Calls /\ s \in StageIdx
    /\ scenario.calls = 1 /\ scenario.faults = 0
    /\ Stage(s).kind = "dynamic"

C7_DynamicPoolProcessesAll ==
    \A c \in CallIds : \A s \in StageIds :
        (C7_DynClean(c, s) /\ Started(c))
            ~> /\ C7_DynClean(c, s)
               /\ RunReturned(c, s)
               /\ closed[StageCh(c, s)]
               /\ CountOn(StageCh(c, s)) = emitted[c]
               /\ CountOn(StageCh(c, s + 1)) + DropsAt(c, s) = emitted[c]
               /\ tokenPool[s] = Stage(s).size

(***************************************************************************)
(* C8.  A DynamicWorkerPools(maxK) stage never has more than maxK worker   *)
(* goroutines alive, over all the calls that use it, so never more than    *)
(* maxK invocations of its processor in flight; the tokens in the pool and *)
(* the tokens the workers hold never exceed maxK.                          *)
(***************************************************************************)
DynWorkersAt(s, states) ==
    { cw \in Calls \X DynSlots(s) :
        pc[DynWorkerId(cw[1], s, cw[2])] \in states }

C8_DynamicPoolBound ==
    \A s \in StageIdx :
        Stage(s).kind = "dynamic" =>
            /\ Cardinality(DynWorkersAt(s, {"proc"})) <= Stage(s).size
            /\ tokenPool[s] >= 0
            /\ tokenPool[s]
                  + Cardinality(DynWorkersAt(s, {"proc", "send", "release"}))
                  <= Stage(s).size

\* Two invocations of the processor of one dynamic pool are in flight.
C8_Witness ==
    \E s \in StageIdx :
        /\ Stage(s).kind = "dynamic"
        /\ Cardinality(DynWorkersAt(s, {"proc"})) >= 2

(***************************************************************************)
(* C9.  The Run of a FixedWorkerPool stage has returned only if all its    *)
(* FIFO workers have returned; and when an error-free, uncancelled run has *)
(* returned, every payload the stage received was processed by exactly one *)
(* worker exactly once, and was sent downstream exactly once unless the    *)
(* processor dropped it (then never): the outputs are, as a multiset, the  *)
(* processed inputs that were not dropped.                                 *)
(***************************************************************************)
C9_FixedPoolOnce ==
    \A c \in Calls : \A s \in StageIdx :
        Stage(s).kind = "fixed" =>
            /\ pc[RunId(c, s)] = "ret" =>
                  \A w \in FifoIdx(s) : pc[FifoId(c, s, w)] = "ret"
            /\ pc[StageId(c, s)] = "done" => pc[RunId(c, s)] = "ret"
            /\ (Returned(c) /\ Clean(c)) =>
                  \A p \in Instances :
                      LET in == SentOn(StageCh(c, s), p)
                          by == { w \in FifoIdx(s) :
                                    HandledBy(FifoId(c, s, w), p) > 0 }
                      IN /\ in <= 1
                         /\ Cardinality(by) = in
                         /\ \A w \in by : HandledBy(FifoId(c, s, w), p) = 1
                         /\ SentOn(StageCh(c, s + 1), p) =
                              IF CopiesIn(<<c, s, p>>, dropped) > 0
                              THEN 0 ELSE in

\* A clean run in which two workers of a pool processed a payload each.
C9_Witness ==
    \E c \in Calls : \E s \in StageIdx :
        /\ Stage(s).kind = "fixed"
        /\ Returned(c) /\ Clean(c)
        /\ \E v, w \in FifoIdx(s) :
              /\ v # w
              /\ HandledCount(FifoId(c, s, v)) = 1
              /\ HandledCount(FifoId(c, s, w)) = 1

(***************************************************************************)
(* C10.  Every one of several calls of Process in progress on the same     *)
(* Pipeline value eventually returns, having delivered to its sink the     *)
(* payloads of its source that were not dropped.                           *)
(***************************************************************************)
C10_Delivered(c) ==
    LET Kept(p) == ~WasDropped(c, p)
    IN consumed[c] = SelectSeq(SourceSeq(c), Kept)

C10_ConcurrentCallsReturn ==
    \A c \in CallIds :
        (c \in Calls /\ scenario.calls > 1 /\ Started(c))
            ~> (c \in Calls /\ Returned(c) /\ C10_Delivered(c))

(***************************************************************************)
(* Part 2: vocabulary of the properties of the graph engine.               *)
(***************************************************************************)
\* The client is past the barrier of the last step it called: step is
\* about to return or has returned, and no other step has begun.
C11_PastBarrier ==
    /\ glog.steps > 0
    /\ cpc \in {"drain", "post", "keep", "ctx", "pre", "returned"}

\* The vertices for which ComputeFunc was called in the current step.
C11_ComputedVertices == { id \in VertexIds : glog.computed[id] > 0 }

\* C11: a superstep returns only after every registered vertex has been
\* handled by a compute worker (once each, and no worker is still at work);
\* ComputeFunc has then been called exactly once for each vertex that was
\* active or had messages in queue (superstep mod 2) and for no other
\* vertex; the active count the step returns is the number of these calls;
\* and completion was signalled exactly once (not at all by a step on a
\* graph without vertices, which returns at once), for 1 and more workers.
C11_StepBarrier ==
    /\ \A id \in VertexIds : glog.computed[id] <= 1
    /\ glog.signals <= 1
    /\ C11_PastBarrier /\ cpc # "returned" =>
          /\ \A id \in DOMAIN vertices : glog.handled[id] = 1
          /\ \A w \in GraphWorkers : gpc[w] = "recv"
          /\ C11_ComputedVertices = glog.eligible
          /\ activeInStep = Cardinality(C11_ComputedVertices)
          /\ pendingInStep = 0
          /\ glog.signals = IF DOMAIN vertices = {} THEN 0 ELSE 1

\* Two workers have passed the barrier of a later superstep in which one
\* vertex was computed and the other was not.
C11_Witness ==
    /\ cpc = "drain"
    /\ gconfig.workers = 2
    /\ superstep = 1
    /\ glog.computed["A"] = 1
    /\ glog.computed["B"] = 0
    /\ glog.handled["B"] = 1
    /\ activeInStep = 1

\* The messages in a queue.
C12_Contents(q) == { q[i] : i \in DOMAIN q }

\* The messages SendMessage enqueued for vertex id during superstep step.
C12_SentTo(id, step) ==
    { m \in { e[2] : e \in { x \in glog.sent : x[1] = id } } : m.step = step }

\* The messages ComputeFunc is handed by worker w.
C12_Visible(w) ==
    C12_Contents(vertices[wvertex[w]].msgQueue[(superstep % 2) + 1])

\* C12: the messages visible to a call of ComputeFunc for a vertex in
\* superstep t are exactly the messages sent to that vertex during superstep
\* t - 1: a message sent in superstep s is visible in s + 1, not in s, and
\* not again in s + 3.
C12_QueueParity ==
    \A w \in GraphWorkers :
        gpc[w] = "compute" =>
            C12_Visible(w) = C12_SentTo(wvertex[w], superstep - 1)

\* The same, for the calls that follow only successful calls of ComputeFunc.
C12_QueueParityWithoutFailure ==
    glog.failures = 0 => C12_QueueParity

\* The executor's run has returned to the client.
C13_Stopped == cpc \in {"returned", "reset", "closing", "closed"}

\* The client is inside step, between its entry and its return.
C13_InStep == cpc \in {"range", "wait", "drain"}

\* C13: once a superstep in which ComputeFunc returned an error for some
\* vertex is over, the executor run has stopped with the error of one of
\* these calls (step returned it), without starting another superstep.
C13_ComputeErrorStopsRun ==
    glog.failed # {} /\ ~C13_InStep =>
        /\ C13_Stopped
        /\ runErr # GNil
        /\ runErr.vertex \in glog.failed

\* Every vertex is inactive and no message is lreq in any queue.
C14_Quiescent ==
    \A id \in DOMAIN vertices :
        /\ ~vertices[id].active
        /\ vertices[id].msgQueue = <<<<>>, <<>>>>

\* The run was started with RunToCompletion; no callback fails in it, its
\* context does not expire, and no ComputeFunc call has failed.
C14_RunsToCompletion ==
    gconfig.steps = -1 /\ gconfig.faults = 0 /\ glog.failures = 0

SampleRun == C14_RunsToCompletion /\ gconfig.compute = "sample"

\* The sample run is over: two supersteps computed vertices, a third found
\* nothing to compute, and B and C hold the value A broadcast.
SampleResult ==
    /\ superstep = 2
    /\ glog.steps = 3
    /\ activeInStep = 0
    /\ runErr = GNil
    /\ vertices["B"].value = SampleValue
    /\ vertices["C"].value = SampleValue

\* C14 as stated: a run started with RunToCompletion terminates once all
\* vertices are inactive and no messages are lreq, so it does not call
\* step again after a superstep that computed no vertex and left every
\* vertex inactive and every queue empty; the sample run (A -> B, A -> C)
\* does not go beyond superstep 2.
C14_StopsWhenQuiescent ==
    /\ C14_RunsToCompletion /\ cpc = "step" /\ glog.steps > 0 =>
          ~(C14_Quiescent /\ activeInStep = 0)
    /\ SampleRun => superstep <= 2

\* C14 as the code has it: a run started with RunToCompletion in which
\* nothing fails stops only when PostStepKeepRunning returns false.  With
\* the default callback it does not stop; with a PostStepKeepRunning that
\* returns activeInStep > 0 it stops after the first superstep that
\* computed no vertex, and it does stop; the sample run then returns with
\* the superstep counter at 2 and B.Value = C.Value = 7.
C14_StopsWhenCallbackSaysSo ==
    /\ [](C14_RunsToCompletion /\ C13_Stopped =>
             gconfig.keep = "whileActive" /\ activeInStep = 0)
    /\ [](SampleRun /\ cpc = "returned" => SampleResult)
    /\ (C14_RunsToCompletion /\ gconfig.keep = "whileActive"
           /\ gconfig.compute = "sample" /\ cpc = "ctx" ~> C13_Stopped)

\* The sample run, with a PostStepKeepRunning that returns
\* activeInStep > 0, has returned.
C14_Witness ==
    /\ SampleRun
    /\ gconfig.keep = "whileActive"
    /\ cpc = "returned"
    /\ SampleResult

\* The queues of all vertices.
C15_Queues(vs) == [id \in DOMAIN vs |-> vs[id].msgQueue]

\* The step in which the ComputeFunc called by worker w calls
\* SendMessage(dstID, msg) and returns its result.
C15_SendMessageCall(w, dstID) ==
    /\ w \in GraphWorkers
    /\ gpc[w] = "compute"
    /\ gpc'[w] = "computed"
    /\ wcall'[w].op = "send"
    /\ wcall'[w].dst = dstID

\* C15: SendMessage(dstID, msg) to a local vertex appends msg to that
\* vertex's queue (superstep + 1) mod 2, changes no other queue and returns
\* nil; to another destination it changes no queue and, if the graph was
\* configured with a relayer, calls it and returns its result, unless that
\* is DestinationIsLocal; without a relayer or with that result it returns
\* InvalidMessageDestination.
C15_SendMessageRouting ==
    [][\A w \in GraphWorkerIds, dstID \in AllIds :
         C15_SendMessageCall(w, dstID) =>
           LET msg == [src |-> wvertex[w], step |-> superstep, val |-> 0]
               err == wcall'[w].err
               next == ((superstep + 1) % 2) + 1
               relays == <<dstID, msg>> \in glog'.relayed
               result == RelayOf(ConfiguredRelayer, dstID)
           IN  IF dstID \in DOMAIN vertices
               THEN /\ err = GNil
                    /\ ~relays
                    /\ C15_Queues(vertices') =
                         [C15_Queues(vertices) EXCEPT ![dstID][next] =
                              Append(@, msg)]
               ELSE /\ C15_Queues(vertices') = C15_Queues(vertices)
                    /\ relays <=> ConfiguredRelayer # "nil"
                    /\ err = IF relays /\ result # ErrDestinationIsLocal
                             THEN result
                             ELSE ErrInvalidMessageDestination]_vars

\* The same for the graphs that were configured without a relayer.
C15_RoutingWithoutRelayer ==
    [][ConfiguredRelayer = "nil" =>
         \A w \in GraphWorkerIds, dstID \in AllIds :
           C15_SendMessageCall(w, dstID) =>
             LET msg == [src |-> wvertex[w], step |-> superstep, val |-> 0]
                 next == ((superstep + 1) % 2) + 1
             IN  IF dstID \in DOMAIN vertices
                 THEN /\ wcall'[w].err = GNil
                      /\ C15_Queues(vertices') =
                           [C15_Queues(vertices) EXCEPT ![dstID][next] =
                                Append(@, msg)]
                 ELSE /\ C15_Queues(vertices') = C15_Queues(vertices)
                      /\ wcall'[w].err = ErrInvalidMessageDestination]_vars

\* The number of the first edge whose destination SendMessage rejects, or
\* Len(edges) + 1 if it accepts them all.
C16_FirstRejected(edges) ==
    LET rejected == { i \in DOMAIN edges :
                        SendMessageErr(vertices, edges[i].dstID) # GNil }
    IN  IF rejected = {} THEN Len(edges) + 1
        ELSE CHOOSE i \in rejected : \A j \in rejected : i <= j

\* How many times msg is in queue q.
C16_Copies(q, msg) == Cardinality({ i \in DOMAIN q : q[i] = msg })

\* The ComputeFunc called by worker w has called BroadcastToNeighbors,
\* which has returned.
C16_Broadcasted(w) ==
    /\ w \in GraphWorkers
    /\ gpc[w] = "computed"
    /\ wcall[w].op = "bcast"
    /\ wcall[w].idx > 0

\* C16: when BroadcastToNeighbors(v, msg) has returned, msg has been
\* enqueued once for each edge of v before the first edge whose destination
\* SendMessage rejects, the error of that edge has been returned (nil if
\* there is none) and nothing was sent along that edge or the edges after
\* it.
C16_BroadcastStopsAtError ==
    \A w \in GraphWorkerIds :
        C16_Broadcasted(w) =>
          LET edges == vertices[wvertex[w]].edges
              first == C16_FirstRejected(edges)
              msg == [src |-> wvertex[w], step |-> superstep, val |-> 0]
              next == ((superstep + 1) % 2) + 1
          IN  /\ wcall[w].idx = IF first <= Len(edges) THEN first
                                ELSE Len(edges)
              /\ wcall[w].err =
                    IF first <= Len(edges)
                    THEN SendMessageErr(vertices, edges[first].dstID)
                    ELSE GNil
              /\ \A id \in DOMAIN vertices :
                    C16_Copies(vertices[id].msgQueue[next], msg) =
                      Cardinality({ i \in 1..(first - 1) :
                                      edges[i].dstID = id })

\* B has broadcast along its edges to A and to R: A has the message, the
\* edge to R was rejected.
C16_Witness ==
    \E w \in GraphWorkers :
        /\ C16_Broadcasted(w)
        /\ wvertex[w] = "B"
        /\ wcall[w].idx = 2
        /\ wcall[w].err = ErrInvalidMessageDestination
        /\ C16_Copies(vertices["A"].msgQueue[((superstep + 1) % 2) + 1],
                  [src |-> "B", step |-> superstep, val |-> 0]) = 1

\* Worker w receives vertex id from step.
C17_Receives(w, id) ==
    /\ w \in GraphWorkers
    /\ gpc[w] = "recv"
    /\ gpc'[w] \in {"compute", "decr"}
    /\ wvertex'[w] = id

\* Vertex id has a message in the queue of the current superstep.
C17_HasPending(id) == Len(vertices[id].msgQueue[(superstep % 2) + 1]) > 0

\* C17: a vertex is active when it has been added to the graph; in a
\* superstep, a vertex that is frozen and has no message in the queue of
\* that superstep is handed to no ComputeFunc call and stays inactive, and a
\* frozen vertex with a message in that queue is set active and handed to
\* ComputeFunc by the worker that receives it.
C17_FreezeAndReactivation ==
    /\ [](cpc = "build" => \A id \in DOMAIN vertices : vertices[id].active)
    /\ [](\A id \in (glog.frozen \ glog.eligible) \cap DOMAIN vertices :
             ~vertices[id].active /\ glog.computed[id] = 0)
    /\ [][\A w \in GraphWorkerIds, id \in VertexIds :
             C17_Receives(w, id) /\ ~vertices[id].active =>
               IF C17_HasPending(id)
               THEN /\ vertices'[id].active
                    /\ gpc'[w] = "compute"
                    /\ activeInStep' = activeInStep + 1
               ELSE /\ ~vertices'[id].active
                    /\ gpc'[w] = "decr"
                    /\ activeInStep' = activeInStep]_vars

\* A, which froze in superstep 0 and was sent a message by B, has been
\* received by a worker in superstep 1, set active, and is about to be
\* computed.
C17_Witness ==
    \E w \in GraphWorkers :
        /\ superstep = 1
        /\ gpc[w] = "compute"
        /\ wvertex[w] = "A"
        /\ "A" \in glog.frozen
        /\ vertices["A"].active
        /\ vertices["A"].msgQueue[2] =
              <<[src |-> "B", step |-> 0, val |-> 0]>>

\* The calls of an iteration of run, in the order the positions of the
\* client may follow each other ("range", "wait" and "drain" are inside
\* step).
C18_IterationOrder ==
    { <<"ctx", "pre">>, <<"pre", "step">>, <<"step", "range">>,
      <<"step", "post">>, <<"range", "range">>, <<"range", "wait">>,
      <<"wait", "drain">>, <<"drain", "post">>, <<"post", "keep">>,
      <<"keep", "ctx">> }

\* The callback the client is calling returns an error in this step.
C18_CallbackFails ==
    gbudget'.faults = gbudget.faults - 1 /\ ctxExpired' = ctxExpired

\* What the PostStepKeepRunning of the program answers for the step made.
C18_KeepSays == gconfig.keep = "whileActive" => activeInStep > 0

\* The positions of the client follow the order of the iteration.
C18_InOrder ==
    (cpc \in RunPositions /\ cpc' # cpc) =>
        (<<cpc, cpc'>> \in C18_IterationOrder \/ cpc' = "returned")

\* An expired context ends the run with the context's error.
C18_ContextCheck ==
    (cpc = "ctx") =>
        IF ctxExpired
        THEN cpc' = "returned" /\ runErr' = ErrCtx
        ELSE cpc' \in {"ctx", "pre"}

\* An error of PreStep or PostStep ends the run and is returned.
C18_CallbackError ==
    (cpc \in {"pre", "post"} /\ cpc' # cpc) =>
        IF C18_CallbackFails
        THEN cpc' = "returned" /\ runErr' = ErrCallback
        ELSE cpc' # "returned"

\* PostStepKeepRunning: an error or keepRunning=false ends the run without
\* an increment, keepRunning=true increments the counter by one.
C18_KeepRunning ==
    (cpc = "keep" /\ cpc' # cpc) =>
        IF C18_CallbackFails
        THEN /\ cpc' = "returned"
             /\ runErr' = ErrCallback
             /\ superstep' = superstep
        ELSE IF ~C18_KeepSays
        THEN /\ cpc' = "returned"
             /\ runErr' = GNil
             /\ superstep' = superstep
        ELSE /\ superstep' = superstep + 1
             /\ maxSteps' = maxSteps - 1
             /\ IF maxSteps = 1
                THEN cpc' = "returned" /\ runErr' = GNil
                ELSE cpc' = "ctx"

\* No other call of the iteration changes the counter.
C18_CounterKept ==
    (cpc \in RunPositions \ {"keep"}) => superstep' = superstep

\* C18: an iteration of the executor makes its calls in the order context
\* check, PreStep, step, PostStep, PostStepKeepRunning; the loop stops at
\* the first error, expired context or keepRunning=false and returns that
\* error (nil for keepRunning=false); RunSteps(n), n >= 0, calls step at
\* most n times; the superstep counter is incremented by one by each
\* iteration that completes with keepRunning=true, and only by these.
C18_ExecutorLoop ==
    /\ [](gconfig.steps >= 0 => glog.steps <= gconfig.steps)
    /\ [][C18_InOrder]_vars
    /\ [][C18_ContextCheck]_vars
    /\ [][C18_CallbackError]_vars
    /\ [][C18_KeepRunning]_vars
    /\ [][C18_CounterKept]_vars

\* RunSteps(2): PostStep failed in the second iteration, and the run has
\* returned its error with the superstep counter at 1.
C18_Witness ==
    /\ gconfig.steps = 2
    /\ cpc = "returned"
    /\ runErr = ErrCallback
    /\ glog.steps = 2
    /\ superstep = 1

\* The graph is as Reset leaves it, the queues of the vertices vs closed.
C19_ResetState(vs) ==
    /\ superstep' = 0
    /\ vertices' = NoVertices
    /\ aggregators' = {}
    /\ glog'.result = GNil
    /\ \A id \in DOMAIN vs : {<<id, 0>>, <<id, 1>>} \subseteq glog'.closedQueues

\* A call of Reset returns.
C19_ResetReturns == cpc = "returned" /\ cpc' = "reset"

\* A call of Close returns.
C19_CloseReturns == cpc = "closing" /\ cpc' = "closed"

\* C19: after Reset the superstep is 0, the vertex map and the aggregator
\* map are empty and both queues of every vertex registered before are
\* closed, while the compute workers keep running (none has exited, the
\* vertex channel is open); Close returns only when the vertex channel is
\* closed and every compute worker has exited, and leaves the Reset state.
C19_ResetAndClose ==
    /\ [][C19_ResetReturns =>
            /\ C19_ResetState(vertices)
            /\ gpc' = gpc /\ vertexChOpen']_vars
    /\ [](cpc = "reset" =>
            /\ vertexChOpen
            /\ \A w \in GraphWorkers : gpc[w] = "recv")
    /\ [][C19_CloseReturns => C19_ResetState(vertices)]_vars
    /\ [](cpc = "closed" =>
            /\ ~vertexChOpen
            /\ \A w \in GraphWorkers : gpc[w] = "exited"
            /\ superstep = 0 /\ vertices = NoVertices /\ aggregators = {})

\* Two workers ran a superstep on the vertices A and B; the graph has been
\* closed and the four queues are closed.
C19_Witness ==
    /\ cpc = "closed"
    /\ gconfig.workers = 2
    /\ glog.steps > 0
    /\ glog.closedQueues = {"A", "B"} \X {0, 1}
    /\ \A w \in GraphWorkers : gpc[w] = "exited"

\* The edge lists of the vertices vs.
C20_Edges(vs) == [id \in DOMAIN vs |-> vs[id].edges]

\* A call of AddEdge returns.
C20_AddEdgeReturns == Building("AddEdge") /\ built' = built + 1

\* C20: AddEdge(src, dst, v) with src not a vertex returns
\* UnknownEdgeSource and leaves every edge list as it was; with src a
\* vertex it returns nil and appends exactly the edge (dst, v) to the end
\* of the edge list of src, the other lists unchanged, whether or not dst
\* is a vertex of the graph.
C20_AddEdge ==
    [][C20_AddEdgeReturns =>
        IF BuildCall.id \notin DOMAIN vertices
        THEN /\ glog'.result = ErrUnknownEdgeSource
             /\ C20_Edges(vertices') = C20_Edges(vertices)
        ELSE /\ glog'.result = GNil
             /\ DOMAIN vertices' = DOMAIN vertices
             /\ \A id \in DOMAIN vertices :
                    vertices'[id].edges =
                        IF id = BuildCall.id
                        THEN vertices[id].edges \o
                                 <<[dstID |-> BuildCall.dst,
                                    value |-> BuildCall.value]>>
                        ELSE vertices[id].edges]_vars

\* The edge from the unknown vertex C was refused, and A has got its edge
\* to the remote vertex and then its edge to the local vertex B.
C20_Witness ==
    /\ gconfig.build = MixedBuild
    /\ cpc = "build"
    /\ built = 5
    /\ "C" \notin DOMAIN vertices
    /\ Len(vertices["A"].edges) = 2
    /\ vertices["A"].edges[1].dstID = RemoteId
    /\ vertices["A"].edges[2].dstID = "B"
    /\ vertices["B"].edges = <<>>

(***************************************************************************)
(* Part 3: vocabulary of the properties of the link store.                 *)
(***************************************************************************)
\* The greatest of the times of S.
C21_Latest(S) == CHOOSE t \in S : \A u \in S : u <= t

\* A call of the operation op by a client returns: the call is counted and
\* the client has not been left waiting in Lock.
C21_Returns(op) ==
    lcall'.op = op /\ llog'.calls = llog.calls + 1 /\ lpc' = lpc

C21_UpsertLinkReturns == C21_Returns("UpsertLink")

\* The call returns the ID the first call for its URL returned.
C21_KeepsID ==
    C21_UpsertLinkReturns /\ llog.firstID[lcall'.link.URL] # NilUUID
        => lcall'.link.ID = llog.firstID[lcall'.link.URL]

\* The store holds one link for each URL upserted, under the ID of the
\* first call and with the latest RetrievedAt submitted.
C21_StoresLatest ==
    \A u \in URLs :
        llog.submitted[u] # {}
            => /\ LinkURLIndex(links, u) = {llog.firstID[u]}
               /\ llog.firstID[u] # NilUUID
               /\ links[llog.firstID[u]].RetrievedAt
                      = C21_Latest(llog.submitted[u])

(***************************************************************************)
(* C21.  Every UpsertLink call for a URL returns the link ID the first     *)
(* call for this URL assigned, and the stored RetrievedAt of the URL is    *)
(* the maximum of the RetrievedAt values submitted for it: an older value  *)
(* never overwrites it.                                                    *)
(***************************************************************************)
C21_UpsertLink == [][C21_KeepsID]_vars /\ []C21_StoresLatest

\* The URL "a" was upserted with the times 2, 0 and 3 or 1 (the older
\* values after a newer one) and holds the latest; "b" was upserted after
\* it and has the second UUID.
C21_Witness ==
    /\ llog.submitted["a"] \in {{0, 2, 3}, {0, 1, 2}}
    /\ lcall.op = "UpsertLink"
    /\ lcall.link.URL = "a"
    /\ lcall.link.RetrievedAt < links[llog.firstID["a"]].RetrievedAt
    /\ llog.firstID["b"] # NilUUID
    /\ llog.firstID["a"] # llog.firstID["b"]

\* The stored edges from src to dst.
C22_Stored(es, src, dst) ==
    { e \in DOMAIN es : es[e].Src = src /\ es[e].Dst = dst }

\* A successful call of UpsertEdge by a client returns.
C22_UpsertEdgeReturns == C21_Returns("UpsertEdge") /\ lcall'.err = LNil

\* As long as no edge was removed, the store holds one edge for each pair
\* upserted and no other edge.
C22_OneEdgePerPair ==
    llog.removals = 0
        => /\ \A p \in llog.upserted :
                  Cardinality(C22_Stored(storeEdges, p[1], p[2])) = 1
           /\ \A e \in DOMAIN storeEdges :
                  <<storeEdges[e].Src, storeEdges[e].Dst>> \in llog.upserted

\* The upsert of a stored pair hands back the stored edge of the pair, with
\* the time of the call, and stores no other edge.
C22_Rewrites ==
    C22_UpsertEdgeReturns
        /\ C22_Stored(storeEdges, lcall'.src, lcall'.dst) # {}
        => /\ lcall'.edge.ID \in C22_Stored(storeEdges, lcall'.src, lcall'.dst)
           /\ lcall'.edge.Src = lcall'.src
           /\ lcall'.edge.Dst = lcall'.dst
           /\ lcall'.edge.UpdatedAt = now
           /\ DOMAIN storeEdges' = DOMAIN storeEdges
           /\ storeEdges'[lcall'.edge.ID] = lcall'.edge

(***************************************************************************)
(* C22.  After successful UpsertEdge calls the store holds exactly one     *)
(* edge for each (Src, Dst) pair upserted, pairs with Src # Dst and        *)
(* self-loops alike; the upsert of a stored pair returns the ID of the     *)
(* stored edge with the Src and Dst of the pair and rewrites UpdatedAt,    *)
(* and no second edge is made for the pair.                                *)
(***************************************************************************)
C22_UpsertEdge == [][C22_Rewrites]_vars /\ []C22_OneEdgePerPair

\* A call of UpsertEdge by a client returns, with or without an error.
C23_UpsertEdgeReturns == C21_Returns("UpsertEdge")

\* The call was given an end that is the ID of no stored link.
C23_UnknownEnd ==
    lcall'.src \notin DOMAIN links \/ lcall'.dst \notin DOMAIN links

C23_Refused ==
    C23_UpsertEdgeReturns /\ C23_UnknownEnd
        => /\ lcall'.err = ErrUnknownEdgeLinks
           /\ storeEdges' = storeEdges
           /\ linkEdgeMap' = linkEdgeMap

(***************************************************************************)
(* C23.  UpsertEdge with a Src or a Dst that is not the ID of a stored     *)
(* link fails with ErrUnknownEdgeLinks and leaves the edges and the edge   *)
(* lists of all sources as they were.                                      *)
(***************************************************************************)
C23_UnknownEdgeLinks == [][C23_Refused]_vars

\* An edge from a stored link to a UUID that is no link's ID was refused
\* while the store held an edge.
C23_Witness ==
    /\ lcall.op = "UpsertEdge"
    /\ lcall.err = ErrUnknownEdgeLinks
    /\ lcall.src \in DOMAIN links
    /\ lcall.dst \in StrayUUIDs
    /\ storeEdges # NoEdges

\* The edges RemoveStaleEdges(src, cutoff) is to delete.
C24_Stale(src, cutoff) ==
    { e \in DOMAIN storeEdges :
        storeEdges[e].Src = src /\ storeEdges[e].UpdatedAt < cutoff }

\* The sequence list without the members of the set gone.
C24_Without(list, gone) == SelectSeq(list, LAMBDA e : e \notin gone)

C24_Removes ==
    C21_Returns("RemoveStaleEdges")
        => LET src == lcall'.from
               gone == C24_Stale(src, lcall'.updatedBefore)
           IN  /\ DOMAIN storeEdges' = DOMAIN storeEdges \ gone
               /\ \A e \in DOMAIN storeEdges' :
                      storeEdges'[e] = storeEdges[e]
               /\ linkEdgeMap'[src] = C24_Without(linkEdgeMap[src], gone)
               /\ \A id \in UUIDs \ {src} :
                      linkEdgeMap'[id] = linkEdgeMap[id]

(***************************************************************************)
(* C24.  RemoveStaleEdges(src, cutoff) deletes exactly the edges with      *)
(* Src = src and UpdatedAt < cutoff, from the edge map and from the edge   *)
(* list of src; the edges of src with UpdatedAt >= cutoff and the edges of *)
(* all other sources are unchanged.                                        *)
(***************************************************************************)
C24_RemoveStaleEdges == [][C24_Removes]_vars

\* The call removed an edge of its source and left a younger edge of the
\* same source and an edge of another source.
C24_Witness ==
    /\ lcall.op = "RemoveStaleEdges"
    /\ Len(linkEdgeMap[lcall.from]) = 1
    /\ Cardinality(DOMAIN storeEdges) = 2
    /\ \E e \in DOMAIN storeEdges :
           /\ storeEdges[e].Src = lcall.from
           /\ storeEdges[e].UpdatedAt >= lcall.updatedBefore
    /\ \E e \in DOMAIN storeEdges :
           /\ storeEdges[e].Src # lcall.from
           /\ storeEdges[e].UpdatedAt < lcall.updatedBefore
    /\ Len(uuids) = 0

\* The members of the sequence q.
C25_Members(q) == { q[i] : i \in DOMAIN q }

\* The scan of client c went through all its partitions while the clock
\* stood still and no client changed the store.
C25_ScannedAtOnce(c) == scan[c].state = "done" /\ scan[c].steady

\* The links a scan with the filter t is to find.
C25_Before(t) == { id \in DOMAIN links : links[id].RetrievedAt < t }

\* No link was handed out by two iterators of the scan of c.
C25_Disjoint(c) ==
    \A i, j \in DOMAIN scan[c].seen :
        scan[c].seen[i] = scan[c].seen[j] => i = j

(***************************************************************************)
(* C25.  For every partition count total >= 1 the extents of the           *)
(* partitions 0..total-1 can be computed and the calls of Links on them    *)
(* return; together the iterators hand out every stored link retrieved     *)
(* before the filter, and no link twice.                                   *)
(***************************************************************************)
C25_PartitionsCover ==
    /\ llog.scans > 0 => ~crashed
    /\ \A c \in StoreClients :
           /\ scan[c].state # "failed"
           /\ C25_ScannedAtOnce(c)
                  => /\ C25_Members(scan[c].seen) = C25_Before(now)
                     /\ C25_Disjoint(c)

\* The iterator of client c holds no link twice and has not run past its
\* end.
C26_Iterates(c) ==
    /\ \A i, j \in DOMAIN iter[c].links :
           iter[c].links[i] = iter[c].links[j] => i = j
    /\ iter[c].curIndex <= Len(iter[c].links)

(***************************************************************************)
(* C26.  Clients that open and read Links iterators on the same store, one *)
(* or several at a time and beside other store calls, do not crash on the  *)
(* mutex of the store, and every iterator hands out each of its links      *)
(* once.                                                                   *)
(***************************************************************************)
C26_ConcurrentIterators ==
    /\ ~crashed
    /\ \A c \in StoreClients : C26_Iterates(c)

\* Process has returned.
C27_Returned == upd.pc = "returned"

\* The stored links with one of the URLs of the sequence urls.
C27_LinksOf(urls) ==
    UNION { LinkURLIndex(links, urls[i]) : i \in DOMAIN urls }

\* The stored edges from the source of the payload to the link dst.
C27_EdgesTo(dst) ==
    { e \in DOMAIN storeEdges :
        storeEdges[e].Src = upd.src.ID /\ storeEdges[e].Dst = dst }

(***************************************************************************)
(* C27.  When Process has returned for a payload of the source link S, it  *)
(* has returned without an error, S is stored, every follow URL of the     *)
(* payload is stored as a link with an edge from S to it, and every        *)
(* no-follow URL is stored as a link to which Process made no edge.        *)
(***************************************************************************)
C27_GraphUpdated ==
    C27_Returned
        => /\ upd.err = LNil
           /\ upd.src.ID \in LinkURLIndex(links, upd.payload.URL)
           /\ \A i \in DOMAIN upd.payload.Links :
                  \E dst \in LinkURLIndex(links, upd.payload.Links[i]) :
                      C27_EdgesTo(dst) # {}
           /\ \A i \in DOMAIN upd.payload.NoFollowLinks :
                  LinkURLIndex(links, upd.payload.NoFollowLinks[i]) # {}
           /\ \A dst \in C27_LinksOf(upd.payload.NoFollowLinks) :
                  C27_EdgesTo(dst) \subseteq upd.had

\* The edges out of the source of the payload.
C28_EdgesOfSource ==
    { e \in DOMAIN storeEdges : storeEdges[e].Src = upd.src.ID }

(***************************************************************************)
(* C28.  When Process has returned for a payload of the source link S, no  *)
(* edge out of S is left whose UpdatedAt is before the time at which the   *)
(* loop over the follow URLs began, and every edge upserted in that loop   *)
(* is still stored.                                                        *)
(***************************************************************************)
C28_StaleEdgesDropped ==
    C27_Returned
        => /\ \A e \in C28_EdgesOfSource :
                  storeEdges[e].UpdatedAt >= upd.removeEdgesOlderThan
           /\ upd.refreshed \subseteq C28_EdgesOfSource

(***************************************************************************)
(* Part 4: vocabulary of the properties of the service loops.              *)
(***************************************************************************)
\* The service s asks the partition detector in this step.
C29_Polls(s) == slog'[s].polls = slog[s].polls + 1

\* The detector has no partition data yet: no pass is begun, Run does not
\* return and waits for the next interval.
C29_Deferred ==
    \A s \in sconfig.services :
        C29_Polls(s) /\ sinfo'[s].err = ErrPartitionDataAvailableYet
            => /\ spc'[s] = "select"
               /\ sresult'[s] = Running
               /\ slog'[s].started = slog[s].started
               /\ slog'[s].deferred = slog[s].deferred + 1

\* The detector fails in another way: Run returns the error of the
\* detector and no pass is begun.
C29_DetectorError ==
    \A s \in sconfig.services :
        C29_Polls(s)
            /\ sinfo'[s].err \notin {SNil, ErrPartitionDataAvailableYet}
            => /\ spc'[s] = "returned"
               /\ sresult'[s] = sinfo'[s].err
               /\ slog'[s].started = slog[s].started

\* Run of the service s returns in this step.
C29_Returns(s) == spc[s] # "returned" /\ spc'[s] = "returned"

\* Run leaves its select without asking the detector only when the context
\* is cancelled, and then it returns nil.
C29_Cancelled ==
    \A s \in sconfig.services :
        spc[s] = "select" /\ spc'[s] # "select" /\ ~C29_Polls(s)
            => sctx /\ spc'[s] = "returned" /\ sresult'[s] = SNil

\* Whenever Run returns with its context cancelled, in a step other than
\* an answer of the detector, it returns nil.
C29_NilOnceCancelled ==
    \A s \in sconfig.services :
        sctx /\ C29_Returns(s) /\ ~C29_Polls(s) => sresult'[s] = SNil

C29_AsClaimed == C29_Deferred /\ C29_DetectorError /\ C29_NilOnceCancelled

(***************************************************************************)
(* C29.  In the loops of the crawler service and of the PageRank service,  *)
(* an interval in which the partition detector answers                     *)
(* ErrPartitionDataAvailableYet begins no pass and the loop waits for the  *)
(* next interval; any other error of the detector makes Run return that    *)
(* error; and a Run whose context is cancelled returns nil.                *)
(***************************************************************************)
C29_CancelReturnsNil == [][C29_AsClaimed]_vars

\* A PageRank pass whose executor finds the context cancelled at the top
\* of an iteration ends there, and Run returns the error of the context.
C29_CancelledInRun ==
    PageRankService \in sconfig.services
        /\ sctx
        /\ spc[PageRankService] = "run"
        /\ spc'[PageRankService] # "run"
        => /\ spc'[PageRankService] = "returned"
           /\ sresult'[PageRankService] = ErrCtxCanceled

\* Run returns the error of the context only from that check of a
\* cancelled context: a cancellation that arrives later in the iteration
\* is not seen before the next iteration, or not by the pass at all.
C29_CtxErrorOnlyAtCheck ==
    \A s \in sconfig.services :
        C29_Returns(s) /\ sresult'[s] = ErrCtxCanceled
            => sctx /\ s = PageRankService /\ spc[s] = "run"

C29_Loop ==
    /\ C29_Deferred
    /\ C29_DetectorError
    /\ C29_Cancelled
    /\ C29_CancelledInRun
    /\ C29_CtxErrorOnlyAtCheck

\* Run of the service s has been called and has not returned, and its
\* context is cancelled.
C29_RunningCancelled(s) ==
    /\ s \in sconfig.services
    /\ sctx
    /\ spc[s] \notin {"idle", "returned"}

C29_HasReturned(s) == s \in sconfig.services /\ spc[s] = "returned"

(***************************************************************************)
(* C29, amended.  The detector's answers decide as claimed.  Once the      *)
(* context is cancelled Run returns, after the pass in progress if there   *)
(* is one: with nil when its select takes the ctx.Done() branch, which it  *)
(* takes only then; with the error of the context when the executor of a   *)
(* PageRank pass finds the context cancelled at the top of an iteration,   *)
(* and only then (a cancellation that arrives after the last such check    *)
(* is not seen by the pass); and as the detector or the pass decide when   *)
(* the select takes the clock branch once more.  The select chooses among  *)
(* its ready branches, so that the ctx.Done() branch is taken in the end.  *)
(***************************************************************************)
C29_ServiceLoop ==
    /\ [][C29_Loop]_vars
    /\ \A s \in Services : C29_RunningCancelled(s) ~> C29_HasReturned(s)

\* The PageRank service deferred a pass, began the next one and, after a
\* superstep of the executor, its Run returned the error of the cancelled
\* context; the crawler service deferred a pass and returned nil from its
\* select.
C29_Witness ==
    /\ sconfig.services = Services
    /\ sctx
    /\ slog[CrawlerService].deferred = 1
    /\ slog[CrawlerService].polls = 1
    /\ sresult[CrawlerService] = SNil
    /\ slog[PageRankService].deferred = 1
    /\ slog[PageRankService].started = 1
    /\ slog[PageRankService].completed = 0
    /\ sbudget.steps < MaxPassSteps
    /\ sresult[PageRankService] = ErrCtxCanceled

\* The PageRank service is in an update pass.
C30_InPass ==
    /\ PageRankService \in sconfig.services
    /\ spc[PageRankService] \in {"reset", "load", "run", "step", "persist"}

\* The PageRank service begins a pass in this step.
C30_PassBegins ==
    /\ PageRankService \in sconfig.services
    /\ slog'[PageRankService].started = slog[PageRankService].started + 1

\* The last answer of the detector names partition 0.
C30_Leader(info) == info.err = SNil /\ info.partition = 0

C30_BeginsAsLeader ==
    C30_PassBegins
        => /\ C29_Polls(PageRankService)
           /\ C30_Leader(sinfo'[PageRankService])

(***************************************************************************)
(* C30.  The PageRank service begins an update pass only in an iteration   *)
(* in which the partition detector reported partition 0, and it is in the  *)
(* steps of a pass (reset, load, the supersteps of the run, persist) only  *)
(* on such a node.                                                         *)
(***************************************************************************)
C30_SingleLeader ==
    /\ [](C30_InPass => C30_Leader(sinfo[PageRankService]))
    /\ [][C30_BeginsAsLeader]_vars

\* The PageRank service is persisting the scores in its second pass.
C30_Witness ==
    /\ PageRankService \in sconfig.services
    /\ spc[PageRankService] = "persist"
    /\ slog[PageRankService].started = 2
    /\ slog[PageRankService].completed = 1
    /\ sinfo[PageRankService].partition = 0

\* Run of the service s has returned nil.
C31_ReturnedNil(s) == spc[s] = "returned" /\ sresult[s] = SNil

(***************************************************************************)
(* C31.  Run of a service blocks until its context is cancelled or an      *)
(* error occurs: a Run that has returned nil was given a context that is   *)
(* cancelled; in particular the PageRank service of a node whose partition *)
(* is not 0 does not return while the context is live.                     *)
(***************************************************************************)
C31_RunBlocks ==
    \A s \in sconfig.services : C31_ReturnedNil(s) => sctx

\* Run of the service s has returned an error.
C32_Failed(s) == spc[s] = "returned" /\ sresult[s] # SNil

\* The services of the group whose Run has returned an error.
C32_FailedServices == { s \in sconfig.services : C32_Failed(s) }

C32_GroupReturned == grp.pc = "returned"

\* Group.Run returns only after every service has completed, with one
\* error for each service that reported one, under the name of the service.
C32_Composite ==
    C32_GroupReturned
        => /\ \A s \in sconfig.services : spc[s] = "returned"
           /\ Len(grp.err) = Cardinality(C32_FailedServices)
           /\ \A s \in C32_FailedServices :
                \E i \in 1..Len(grp.err) :
                    grp.err[i] = s \o " : " \o sresult[s]

\* Once the goroutine of a service has reported an error, the context of
\* the other services is cancelled.
C32_OthersCancelled ==
    (\E s \in grp.exited : C32_Failed(s)) => sctx

(***************************************************************************)
(* C32.  Group.Run returns once all services have completed, because the   *)
(* context of the caller was cancelled or because a service reported an    *)
(* error: an error of a service cancels the context of the other services *)
(* and, also when the caller never cancels, Group.Run then returns; what   *)
(* it returns holds every reported error under the name of its service.    *)
(***************************************************************************)
C32_GroupRun ==
    /\ [](C32_Composite /\ C32_OthersCancelled)
    /\ (grp.pc = "waitCtx" /\ grp.ctxDone) ~> C32_GroupReturned
    /\ (grp.pc = "waitCtx" /\ C32_FailedServices # {}) ~> C32_GroupReturned

(***************************************************************************)
(* Part 5: vocabulary of the properties of the accumulator.                *)
(***************************************************************************)
\* No goroutine is inside a call of the accumulator.
C33_Quiet == \A w \in 1..aconfig.workers : apc[w] = "idle"

\* Only Aggregate has been called so far.
C33_OnlyAggregate == alog.sets = 0

\* After the Aggregate calls made on a new accumulator have returned, Get
\* returns the sum of the values they were given.
C33_NoLostUpdate ==
    C33_OnlyAggregate /\ C33_Quiet
        => LoadFloat64(curSum) = 0 + alog.sum

\* The goroutine w is inside a call, or outside every call.
C33_InCall(w) == w <= aconfig.workers /\ apc[w] # "idle"

C33_Idle(w) == w <= aconfig.workers => apc[w] = "idle"

\* A call of Aggregate returns when no Set is ever called.
C33_Terminates ==
    \A w \in AccWorkers :
        (aconfig.ops = {"Aggregate"} /\ C33_InCall(w)) ~> C33_Idle(w)

(***************************************************************************)
(* C33.  Aggregate is safe for concurrent use: however the loads and the   *)
(* compare-and-swaps of concurrent Aggregate calls interleave, every call  *)
(* returns, and once they have returned Get returns the initial value plus *)
(* the sum of the values aggregated: no update is lost.                    *)
(***************************************************************************)
C33_Aggregate == []C33_NoLostUpdate /\ C33_Terminates

\* Three Aggregate calls of two goroutines have returned, one of them
\* after a compare-and-swap that failed.
C33_Witness ==
    /\ aconfig.workers = 2
    /\ C33_OnlyAggregate
    /\ C33_Quiet
    /\ alog.returned = 3
    /\ alog.retries > 0
    /\ alog.sum = 5
    /\ Get = 5

\* The accumulator is used by one goroutine: no call is concurrent with
\* another.
C34_Sequential == aconfig.workers = 1

\* The Set call of the only goroutine returns in this step.
C34_SetReturns ==
    /\ C34_Sequential
    /\ acall[1].op = "Set"
    /\ apc[1] # "idle"
    /\ apc'[1] = "idle"

\* When Set(v) returns, both sums hold v.
C34_SetsBoth ==
    C34_SetReturns
        => /\ LoadFloat64(curSum') = acall[1].v
           /\ LoadFloat64(prevSum') = acall[1].v

\* The only goroutine is inside Set.
C34_InSet == C34_Sequential /\ acall[1].op = "Set" /\ apc[1] # "idle"

C34_OutOfSet == C34_Sequential /\ apc[1] = "idle"

(***************************************************************************)
(* C34.  Set(v) terminates whatever v is and whatever the accumulator      *)
(* holds, and when it returns with no other call in progress Get returns v *)
(* and the previous sum, the baseline of Delta, is v as well.              *)
(***************************************************************************)
C34_Set == [][C34_SetsBoth]_vars /\ (C34_InSet ~> C34_OutOfSet)

\* The client c is between the RLock and the release of Links, of
\* linkIterator.Link or of Edges.
C35_Reading(c) == lpc[c] \in {"links", "link", "edges"}

C35_Readers == { c \in StoreClients : C35_Reading(c) }

(***************************************************************************)
(* C35.  Links, Edges, linkIterator.Link and edgeIterator.Edge release the *)
(* lock they took, in the mode they took it and once: no release stops the *)
(* program, the readers the mutex counts are the clients inside one of     *)
(* these operations (Edges counts as a reader for its whole scan), and the *)
(* mutex is free when none is.                                             *)
(***************************************************************************)
C35_LockDiscipline ==
    /\ ~crashed
    /\ mu.readers = Cardinality(C35_Readers)
    /\ (C35_Readers = {} /\ \A c \in StoreClients : lpc[c] # "lockwait")
           => mu = NewRWMutex

\* The list of edges of the iterator of the client c, and what the consumer
\* has been given so far by Edge.
C36_List(c) == escan[c].edges

C36_Given(c) == escan[c].seen

(***************************************************************************)
(* C36.  An edgeIterator over a list of k edges yields each of them once:  *)
(* Next returns true k times and then false, and after every Next that     *)
(* returned true, Edge returns the next edge of the list.                  *)
(***************************************************************************)
C36_EdgeIterator ==
    \A c \in StoreClients :
        /\ escan[c].trues <= Len(C36_List(c))
        /\ C36_Given(c) = SubSeq(C36_List(c), 1, Len(C36_Given(c)))
        /\ lpc[c] = "edgeNext" => Len(C36_Given(c)) = escan[c].trues
        /\ escan[c].state = "done" => escan[c].trues = Len(C36_List(c))

\* At most one stored link has a given URL.
C37_UniqueURL ==
    \A i, j \in DOMAIN links : links[i].URL = links[j].URL => i = j

\* The URL index and the ID map hold the same links: every entry of the
\* index is a stored link with that URL, and every stored link is the
\* entry of its URL and is stored under its own ID.
C37_SameLinks ==
    /\ \A u \in URLs :
           linkURLIndex[u] # NilUUID
               => /\ linkURLIndex[u] \in DOMAIN links
                  /\ links[linkURLIndex[u]].URL = u
    /\ \A id \in DOMAIN links :
           links[id].ID = id /\ linkURLIndex[links[id].URL] = id

\* The ends of every stored edge are stored links.
C37_EndsStored ==
    \A e \in DOMAIN storeEdges :
        /\ storeEdges[e].ID = e
        /\ storeEdges[e].Src \in DOMAIN links
        /\ storeEdges[e].Dst \in DOMAIN links

\* The edge list of a source holds the IDs of the stored edges with that
\* source, each once.
C37_ListOf(src) ==
    LET list == linkEdgeMap[src]
    IN  /\ { list[k] : k \in DOMAIN list }
             = { e \in DOMAIN storeEdges : storeEdges[e].Src = src }
        /\ \A k, j \in DOMAIN list : list[k] = list[j] => k = j

(***************************************************************************)
(* C37.  In every state of the in-memory store, after any sequence of      *)
(* UpsertLink, UpsertEdge and RemoveStaleEdges calls: no two stored links  *)
(* have the same URL, the URL index and the ID map hold the same links,    *)
(* the ends of every stored edge are stored links, and the edge list of    *)
(* every source holds exactly the IDs of the stored edges with that source.*)
(***************************************************************************)
C37_StoreInvariant ==
    /\ C37_UniqueURL
    /\ C37_SameLinks
    /\ C37_EndsStored
    /\ \A src \in UUIDs : C37_ListOf(src)

\* Two links and an edge are stored after an UpsertLink that updated a
\* link and a RemoveStaleEdges that dropped an edge.
C37_Witness ==
    /\ Cardinality(DOMAIN links) = 2
    /\ Cardinality(DOMAIN storeEdges) = 1
    /\ llog.removals > 0
    /\ Len(uuids) < 2
    /\ lcall.op = "UpsertLink"

(***************************************************************************)
(* Part 6: vocabulary of the properties of the message queue.              *)
(***************************************************************************)
\* The messages a sequence holds.
C38_Elems(q) == { q[k] : k \in DOMAIN q }

\* The messages Next has taken from the queue.
C38_Taken ==
    C38_Elems(qgot) \cup (IF qpc = "message" THEN {latchedMsg} ELSE {})

\* While nothing was discarded, every message enqueued is in the queue or
\* was taken by Next, and none is in both places or twice in one.
C38_Retained ==
    qlog.discards = 0
        => /\ C38_Elems(qmsgs) \cup C38_Taken = 1..qlog.enqueued
           /\ Len(qmsgs) + Cardinality(C38_Taken) = qlog.enqueued

\* No message is returned twice, and a message returned is in the queue no
\* longer.
C38_AtMostOnce ==
    /\ \A k, j \in DOMAIN qgot : qgot[k] = qgot[j] => k = j
    /\ C38_Taken \cap C38_Elems(qmsgs) = {}

\* A Next that returns true latches the message enqueued last and removes
\* it; the Message call that follows returns it.
C38_MostRecentFirst ==
    /\ qpc = "idle" /\ qpc' = "message"
           => /\ latchedMsg' \in C38_Elems(qmsgs)
              /\ \A m \in C38_Elems(qmsgs) : m <= latchedMsg'
              /\ C38_Elems(qmsgs') = C38_Elems(qmsgs) \ {latchedMsg'}
    /\ qpc = "message" /\ qpc' = "idle"
           => qgot' = Append(qgot, latchedMsg)

\* After a Next that returned false and after DiscardMessages, no message
\* is lreq.
C38_NonePending ==
    (qlog'.exhausted # qlog.exhausted \/ qlog'.discards # qlog.discards)
        => ~PendingMessage(qmsgs')

C38_Steps == C38_MostRecentFirst /\ C38_NonePending

(***************************************************************************)
(* C38.  In the in-memory message queue the messages enqueued by           *)
(* concurrent producers are all retained; the iterator returns each queued *)
(* message at most once, the most recently enqueued first, and removes it; *)
(* PendingMessage is false once Next has returned false and after          *)
(* DiscardMessages.                                                        *)
(***************************************************************************)
C38_MessageQueue ==
    /\ [](C38_Retained /\ C38_AtMostOnce)
    /\ [][C38_Steps]_vars

\* Two producers enqueued four messages; the consumer was given the second,
\* the first, found the queue exhausted, was given the fourth and discarded
\* the third.
C38_Witness ==
    /\ qconfig.producers = 2
    /\ qgot = <<2, 1, 4>>
    /\ qlog.exhausted = 1
    /\ qlog.discards = 1
    /\ qmsgs = <<>>

(***************************************************************************)
(* Part 1, continued: the channels of a run and the release of payloads.   *)
(***************************************************************************)
\* The goroutines that send on channel ch: the source on stageCh[0]; the
\* FIFOs (of a FIFO stage, a fixed pool or a broadcast) and the goroutines
\* of a dynamic pool of stage s on stageCh[s+1]; the fan-out loop of a
\* broadcast on its inCh[i].
C39_Senders(ch) ==
    CASE ch[2] = "bc" -> {RunId(ch[1], ch[3])}
      [] ch[3] = 0 -> {SourceId(ch[1])}
      [] OTHER ->
          { FifoId(ch[1], ch[3] - 1, w) : w \in FifoIdx(ch[3] - 1) }
          \cup { DynWorkerId(ch[1], ch[3] - 1, w) :
                   w \in DynSlots(ch[3] - 1) }

\* The goroutine that closes channel ch, and where it stands right before
\* and right after its close statement.
C39_Closer(ch) ==
    CASE ch[2] = "bc" -> RunId(ch[1], ch[3])
      [] ch[3] = 0 -> SourceId(ch[1])
      [] OTHER -> StageId(ch[1], ch[3] - 1)

C39_BeforeClose(ch) ==
    CASE ch[2] = "bc" -> "close"
      [] ch[3] = 0 -> "close"
      [] OTHER -> "run"

C39_AfterClose(ch) == IF ch[2] = "bc" THEN "wait" ELSE "done"

\* The closer of ch executes its close statement in this step.
C39_Closes(ch) ==
    /\ pc[C39_Closer(ch)] = C39_BeforeClose(ch)
    /\ pc'[C39_Closer(ch)] = C39_AfterClose(ch)

\* Sender p has finished: it has returned and will not send again (a slot
\* of a dynamic pool is started no more once Run has returned).
C39_Finished(p) ==
    CASE Kind(p) = "source" -> pc[p] \in {"close", "done"}
      [] Kind(p) = "run" -> pc[p] \in {"close", "wait", "ret"}
      [] Kind(p) = "fifo" -> pc[p] = "ret"
      [] Kind(p) = "dyn" ->
            /\ pc[p] = "idle"
            /\ pc[RunId(p[1], p[3])] = "ret"
      [] OTHER -> FALSE

\* Goroutine p stands at a send statement on an inter-stage channel.
C39_Sending(p) ==
    CASE Kind(p) = "source" -> pc[p] = "send"
      [] Kind(p) = "run" -> pc[p] = "dispatch"
      [] Kind(p) \in {"fifo", "dyn"} -> pc[p] = "send"
      [] OTHER -> FALSE

\* No goroutine stands at a send on a closed channel: every sender of a
\* closed channel has finished.
C39_NoSendOnClosed ==
    \A ch \in ChanIds :
        closed[ch] =>
            \A p \in C39_Senders(ch) : C39_Finished(p) /\ ~C39_Sending(p)

\* A close statement is executed on a channel that is still open, once per
\* channel, when every sender has finished; and a channel becomes closed
\* only by the close statement of its producer side; no transfer happens
\* on a closed channel.
C39_CloseStep ==
    \A ch \in ChanIds :
        /\ C39_Closes(ch) =>
              /\ ~closed[ch]
              /\ \A p \in C39_Senders(ch) \ {C39_Closer(ch)} :
                    C39_Finished(p)
        /\ (closed'[ch] /\ ~closed[ch]) => C39_Closes(ch)
        /\ closed[ch] =>
              /\ closed'[ch]
              /\ CountOn(ch)' = CountOn(ch)

(***************************************************************************)
(* C39.  In every run of the pipeline, failing and cancelled runs          *)
(* included, no goroutine sends on a closed channel and no channel is      *)
(* closed twice: each inter-stage channel (and each input channel of a     *)
(* broadcast) is closed once, by its producer side, and only after every   *)
(* sender on it (the FIFOs of a pool or of a broadcast, the goroutines of  *)
(* a dynamic pool) has finished.                                           *)
(***************************************************************************)
C39_ChannelsClosedOnce ==
    /\ []C39_NoSendOnClosed
    /\ [][C39_CloseStep]_vars

\* A failing run of a fixed pool closed its output with both workers
\* returned, one of them on an error; and the run has returned.
C39_Witness ==
    \E c \in Calls : \E s \in StageIdx :
        /\ Stage(s).kind = "fixed"
        /\ closed[StageCh(c, s + 1)]
        /\ firstErr[c] # NoError
        /\ Returned(c)

\* No payload instance has had MarkAsProcessed called on it twice; one a
\* stage released (its processor dropped it) was not released by the sink.
C40_MarkedAtMostOnce ==
    \A c \in Calls : \A p \in Instances :
        /\ MarkCount(c, p) <= 1
        /\ MarksBy(c, p, "stage") > 0 =>
              /\ MarksBy(c, p, "sink") = 0
              /\ p \notin Elems(consumed[c])

\* The sink worker returns from a failed Consume without releasing the
\* payload; and every step releases at most one payload, once.
C40_FailedConsume ==
    \A c \in Calls :
        /\ (pc[SinkId(c)] = "consume" /\ pc'[SinkId(c)] = "done") =>
              /\ marks' = marks
              /\ MarkCount(c, hold[SinkId(c)]) = 0
        /\ \A p \in Instances :
              MarkCount(c, p)' <= MarkCount(c, p) + 1

(***************************************************************************)
(* C40.  In every run of the pipeline, the runs that abort on an error or  *)
(* a cancellation included, MarkAsProcessed is called at most once on a    *)
(* payload instance: never both by a stage that dropped the payload and    *)
(* by the sink, and not by the sink worker when Consume failed.            *)
(***************************************************************************)
C40_MarkAsProcessedOnce ==
    /\ []C40_MarkedAtMostOnce
    /\ [][C40_FailedConsume]_vars

\* A run that a failed Consume aborted: before it, the sink consumed and
\* released one payload; the payload whose Consume failed stays unreleased.
C40_Witness ==
    \E c \in Calls :
        /\ Returned(c)
        /\ SinkError("fail") \in reported[c]
        /\ \E p, q \in Instances :
              /\ MarksBy(c, p, "sink") = 1
              /\ SentOn(StageCh(c, NumStages), q) = 1
              /\ MarkCount(c, q) = 0

====
